---- MODULE Spec2Model ----
(***************************************************************************)
(* Thumbnail cache engine of Fotos (packages/core/src/image/thumbnail.rs). *)
(*                                                                         *)
(* Part A: the pure functions (fnv1a_64, thumbnail_key, cache_path), on    *)
(*         64-bit values kept as 8 little-endian bytes so that the         *)
(*         wrapping arithmetic of the code is the arithmetic of the model. *)
(* Part B: SpecKey, key derivation applied to bounded path strings.        *)
(* Part C: Spec, get_or_create / get_cached_path called by concurrent      *)
(*         threads over one cache directory.                               *)
(***************************************************************************)
EXTENDS Integers, Sequences, FiniteSets, TLC

(***************************************************************************)
(* Part A.  Bytes, u64 arithmetic, FNV-1a                                  *)
(***************************************************************************)

\* A u64 is a sequence of 8 bytes, least significant first.
U64Len == 8

Byte == 0..255

\* 0xcbf29ce484222325
FNV_OFFSET_BASIS == <<37, 35, 34, 132, 228, 156, 242, 203>>

\* 0x100000001b3
FNV_PRIME == <<179, 1, 0, 0, 0, 1, 0, 0>>

RECURSIVE BitXor(_, _, _)
\* x ^ y on `bits` bits
BitXor(x, y, bits) ==
    IF bits = 0 THEN 0
    ELSE (((x % 2) + (y % 2)) % 2) + 2 * BitXor(x \div 2, y \div 2, bits - 1)

\* hash ^= byte as u64 : only the low byte changes
XorByte(hash, byte) == [hash EXCEPT ![1] = BitXor(hash[1], byte, 8)]

RECURSIVE SumProducts(_, _, _, _)
\* sum of a[i] * b[k - i] over i = idx..k (0-based limbs)
SumProducts(a, b, k, idx) ==
    IF idx > k THEN 0
    ELSE a[idx + 1] * b[k - idx + 1] + SumProducts(a, b, k, idx + 1)

RECURSIVE MulLimbs(_, _, _, _)
MulLimbs(a, b, k, carry) ==
    IF k = U64Len THEN << >>
    ELSE LET t == SumProducts(a, b, k, 0) + carry
         IN  << t % 256 >> \o MulLimbs(a, b, k + 1, t \div 256)

\* u64::wrapping_mul : the product modulo 2^64
wrapping_mul(a, b) == MulLimbs(a, b, 0, 0)

RECURSIVE fnv1a_64(_, _)
\* for byte in bytes { hash ^= byte; hash = hash.wrapping_mul(FNV_PRIME) }
fnv1a_64(bytes, start) ==
    IF bytes = << >> THEN start
    ELSE fnv1a_64(Tail(bytes), wrapping_mul(XorByte(start, Head(bytes)), FNV_PRIME))

\* u32::to_le_bytes
to_le_bytes(n) ==
    << n % 256, (n \div 256) % 256, (n \div 65536) % 256, (n \div 16777216) % 256 >>

(***************************************************************************)
(* Paths.  A source path is a byte string; Path::components() parses it.   *)
(***************************************************************************)

SLASH == 47
BACKSLASH == 92
DOT == 46

\* The separators of a platform: '/' on Unix, '/' and '\' on Windows.
Separators(platform) ==
    IF platform = "windows" THEN {SLASH, BACKSLASH} ELSE {SLASH}

RECURSIVE SplitPieces(_, _, _)
\* the pieces between separators, empty pieces included
SplitPieces(path, seps, cur) ==
    IF path = << >> THEN << cur >>
    ELSE IF Head(path) \in seps
         THEN << cur >> \o SplitPieces(Tail(path), seps, << >>)
         ELSE SplitPieces(Tail(path), seps, Append(cur, Head(path)))

RECURSIVE ParsePieces(_, _, _)
\* "" and "." are dropped (a leading "." of a rootless path is CurDir),
\* ".." is ParentDir, anything else is Normal.
ParsePieces(pieces, first, rooted) ==
    IF pieces = << >> THEN << >>
    ELSE LET p    == Head(pieces)
             rest == ParsePieces(Tail(pieces), FALSE, rooted)
         IN  IF p = << >> THEN rest
             ELSE IF p = << DOT >>
                  THEN IF first /\ ~rooted
                       THEN << [kind |-> "CurDir", name |-> << >>] >> \o rest
                       ELSE rest
             ELSE IF p = << DOT, DOT >>
                  THEN << [kind |-> "ParentDir", name |-> << >>] >> \o rest
             ELSE << [kind |-> "Normal", name |-> p] >> \o rest

\* Path::components(), for paths without a Windows prefix
components(path, platform) ==
    LET rooted == path # << >> /\ Head(path) \in Separators(platform)
        pieces == SplitPieces(path, Separators(platform), << >>)
    IN  (IF rooted THEN << [kind |-> "RootDir", name |-> << >>] >> ELSE << >>)
        \o ParsePieces(pieces, TRUE, rooted)

RECURSIVE Utf8From(_, _)
\* the UTF-8 validation of OsStr::to_str on Unix; `need` continuation bytes
\* are still due (the second-byte range restrictions of E0/ED/F0/F4 are
\* applied at the lead byte)
Utf8From(bytes, need) ==
    IF bytes = << >> THEN need = 0
    ELSE LET b == Head(bytes) IN
         IF need > 0
         THEN b >= 128 /\ b <= 191 /\ Utf8From(Tail(bytes), need - 1)
         ELSE IF b < 128 THEN Utf8From(Tail(bytes), 0)
         ELSE IF b >= 194 /\ b <= 223 THEN Utf8From(Tail(bytes), 1)
         ELSE IF b >= 224 /\ b <= 239
              THEN Len(bytes) >= 2
                   /\ (b = 224 => bytes[2] >= 160)
                   /\ (b = 237 => bytes[2] <= 159)
                   /\ Utf8From(Tail(bytes), 2)
         ELSE IF b >= 240 /\ b <= 244
              THEN Len(bytes) >= 2
                   /\ (b = 240 => bytes[2] >= 144)
                   /\ (b = 244 => bytes[2] <= 143)
                   /\ Utf8From(Tail(bytes), 3)
         ELSE FALSE

\* OsStr::to_string_lossy never fails: a conversion that guesses
to_string_lossy_ok(name) == TRUE

\* os_str.to_str().is_some()
to_str_ok(name) == Utf8From(name, 0)

(***************************************************************************)
(* thumbnail_key and cache_path                                            *)
(***************************************************************************)

KeyErr(e) == [ok |-> FALSE, err |-> e, key |-> << >>]
KeyOk(k) == [ok |-> TRUE, err |-> "", key |-> k]

\* a key that would also tell rooted paths from rootless ones
IsHashedWithRoot(c) == c.kind \in {"Normal", "RootDir"}

\* Which components take part in the key: `if let Component::Normal(os_str)`
IsHashed(c) == c.kind = "Normal"

RECURSIVE HashComponents(_, _)
\* the loop over source.components(); the `?` leaves at the first component
\* that is not UTF-8
HashComponents(comps, hash) ==
    IF comps = << >> THEN KeyOk(hash)
    ELSE LET c == Head(comps) IN
         IF ~IsHashed(c) THEN HashComponents(Tail(comps), hash)
         ELSE IF ~to_str_ok(c.name) THEN KeyErr("InvalidPathEncoding")
         ELSE HashComponents(Tail(comps),
                             fnv1a_64(<< SLASH >>, fnv1a_64(c.name, hash)))

\* the second half of thumbnail_key: width then height, little-endian
HashSpec(hash, spec) ==
    fnv1a_64(to_le_bytes(spec.height), fnv1a_64(to_le_bytes(spec.width), hash))

thumbnail_key(source, platform, spec) ==
    LET r == HashComponents(components(source, platform), FNV_OFFSET_BASIS)
    IN  IF r.ok THEN KeyOk(HashSpec(r.key, spec)) ELSE r

HexDigits ==
    << "0", "1", "2", "3", "4", "5", "6", "7",
       "8", "9", "a", "b", "c", "d", "e", "f" >>

\* format!("{:x}") of one byte: no zero padding
Hex2Unpadded(b) ==
    IF b < 16 THEN HexDigits[b + 1]
    ELSE HexDigits[(b \div 16) + 1] \o HexDigits[(b % 16) + 1]

Hex2(b) == HexDigits[(b \div 16) + 1] \o HexDigits[(b % 16) + 1]

\* format!("{:016x}", key.0) : most significant byte first
Hex16(key) ==
    Hex2(key[8]) \o Hex2(key[7]) \o Hex2(key[6]) \o Hex2(key[5])
    \o Hex2(key[4]) \o Hex2(key[3]) \o Hex2(key[2]) \o Hex2(key[1])

\* A cache path is the sequence of its components below (and including) root.
cache_path(root, key) ==
    << root, Hex2(key[8]), Hex16(key) \o ".jpg" >>

(***************************************************************************)
(* Part B.  SpecKey: thumbnail_key on bounded inputs                       *)
(***************************************************************************)

\* longest path string, in bytes
MaxPathLen == 4

\* 'a', '/', '\', '.'
PathAlphabet == {97, SLASH, BACKSLASH, DOT}

Platforms == {"unix", "windows"}

KeySpecs ==
    { [width |-> 200, height |-> 200],
      [width |-> 201, height |-> 200],
      [width |-> 200, height |-> 201] }

VARIABLES kPhase, kPlatform, kPath, kSpec, kResult

\* The state of the cache model (Part C)
VARIABLES
    pidOf,     \* the process each thread runs in
    clock,     \* SystemTime::now(), in ticks of the clock's resolution
    dirs,      \* the shard directories that exist
    files,     \* directory entries: path |-> inode
    inodes,    \* inode |-> [photo, state, mtime]
    calls,     \* calls made so far
    faults,    \* I/O failures the environment has produced so far
    th         \* per thread: the call in progress or the last call's result

kvars == << kPhase, kPlatform, kPath, kSpec, kResult >>

cvars == << pidOf, clock, dirs, files, inodes, calls, faults, th >>

\* The calls of the other functions of the core (Part D), one variable each
VARIABLES
    cp,        \* a cache_path call: the key given, the path returned
    ex,        \* an EXIF thumbnail offset calculation: the file, the tag, both results
    rp,        \* an extract_raw_preview call: the file, the scan position, both maxima, the result
    oi,        \* an orientation correction: the image, the orientation, the image returned
    ip,        \* a run_import_pipeline call: the files, what became of each, the counters
    gi,        \* a get_or_create call on an empty cache: the source, the tiers tried, the file written
    ch,        \* a compute_hash call: the file, the hasher, the digest returned
    ix,        \* the photos table of one PhotoIndex, its mutex and the insert calls in progress
    ic,        \* cancel_import / import_photos
    fj,        \* find_jpeg_tiff_header_offset, step by step
    ft,        \* try_extract_embedded_thumbnail: the size decision
    et,        \* try_extract_embedded_thumbnail: the read of the thumbnail bytes
    ck         \* the chunked scan for FF D8 FF

xvars == << cp, ex, rp, oi, ip, gi, ch, ix, ic, fj, ft, et, ck >>

\* every variable of Part D but `v` stays as it is
XKeep(v) ==
    /\ IF v = "cp" THEN TRUE ELSE cp' = cp
    /\ IF v = "ex" THEN TRUE ELSE ex' = ex
    /\ IF v = "rp" THEN TRUE ELSE rp' = rp
    /\ IF v = "oi" THEN TRUE ELSE oi' = oi
    /\ IF v = "ip" THEN TRUE ELSE ip' = ip
    /\ IF v = "gi" THEN TRUE ELSE gi' = gi
    /\ IF v = "ch" THEN TRUE ELSE ch' = ch
    /\ IF v = "ix" THEN TRUE ELSE ix' = ix
    /\ IF v = "ic" THEN TRUE ELSE ic' = ic
    /\ IF v = "fj" THEN TRUE ELSE fj' = fj
    /\ IF v = "ft" THEN TRUE ELSE ft' = ft
    /\ IF v = "et" THEN TRUE ELSE et' = et
    /\ IF v = "ck" THEN TRUE ELSE ck' = ck

KeyInit ==
    /\ kPhase = "build"
    /\ kPlatform \in Platforms
    /\ kSpec \in KeySpecs
    /\ kPath = << >>
    /\ kResult = KeyErr("none")

\* The caller spells the path one byte at a time.  A Windows path that
\* starts with two separators has a UNC prefix, which components() above
\* does not parse: those inputs are left out.
KeyAppend ==
    /\ kPhase = "build"
    /\ Len(kPath) < MaxPathLen
    /\ \E b \in PathAlphabet :
          /\ ~(kPlatform = "windows" /\ Len(kPath) = 1
               /\ kPath[1] \in Separators(kPlatform)
               /\ b \in Separators(kPlatform))
          /\ kPath' = Append(kPath, b)
    /\ UNCHANGED << kPhase, kPlatform, kSpec, kResult, cvars, xvars >>

KeyDerive ==
    /\ kPhase = "build"
    /\ kPhase' = "derived"
    /\ kResult' = thumbnail_key(kPath, kPlatform, kSpec)
    /\ UNCHANGED << kPlatform, kPath, kSpec, cvars, xvars >>

KeyNext == KeyAppend \/ KeyDerive

\* Every path string the caller can spell, per platform.
KeyPaths == UNION { [1..n -> PathAlphabet] : n \in 0..MaxPathLen }

KeyInputs ==
    { q \in Platforms \X KeyPaths :
        ~(q[1] = "windows" /\ Len(q[2]) >= 2
          /\ q[2][1] \in Separators(q[1]) /\ q[2][2] \in Separators(q[1])) }

RECURSIVE NormalNames(_)
\* the names of the Normal components, in order
NormalNames(comps) ==
    IF comps = << >> THEN << >>
    ELSE IF Head(comps).kind = "Normal"
         THEN << Head(comps).name >> \o NormalNames(Tail(comps))
         ELSE NormalNames(Tail(comps))

\* a path that names a file: its last component is Normal
IsFilePath(comps) == comps # << >> /\ comps[Len(comps)].kind = "Normal"

\* thumbnail_key of every input and spec
KeyTable ==
    { [ platform |-> q[1], path |-> q[2], spec |-> s,
        comps    |-> components(q[2], q[1]),
        normals  |-> NormalNames(components(q[2], q[1])),
        result   |-> thumbnail_key(q[2], q[1], s) ] :
      q \in KeyInputs, s \in KeySpecs }

\* C9: thumbnail_key depends only on the sequence of Normal components and on
\* the spec: any other spelling, on either platform, that has the same Normal
\* components gets the same result for the same spec.
C9_KeyDependsOnlyOnNormalComponents ==
    kPhase = "derived" =>
        \A e \in KeyTable :
            (e.spec = kSpec
             /\ e.normals = NormalNames(components(kPath, kPlatform)))
            => e.result = kResult

\* "a/a" on Unix was derived, and "a\a" on Windows has the same key
C9_Witness ==
    /\ kPhase = "derived"
    /\ kResult.ok
    /\ kPlatform = "unix"
    /\ kPath = << 97, SLASH, 97 >>
    /\ \E e \in KeyTable :
          /\ e.platform = "windows"
          /\ e.path = << 97, BACKSLASH, 97 >>
          /\ e.spec = kSpec
          /\ e.result = kResult

\* C10 (as claimed): two different source files of one platform, or two
\* different specs, never get the same key.
C10_DistinctInputsDistinctKeys ==
    (kPhase = "derived" /\ kResult.ok
        /\ IsFilePath(components(kPath, kPlatform))) =>
        \A e \in KeyTable :
            ( /\ e.platform = kPlatform
              /\ IsFilePath(e.comps)
              /\ e.result.ok
              /\ (e.comps # components(kPath, kPlatform) \/ e.spec # kSpec) )
            => e.result.key # kResult.key

(***************************************************************************)
(* Part C.  Spec: Thumbnailer::get_or_create and get_cached_path, called   *)
(* by concurrent threads over one cache directory                          *)
(***************************************************************************)

\* number of threads calling into one Thumbnailer cache root
NThreads == 2

\* number of calls made in one run, over all threads
MaxCalls == 2

\* number of I/O failures (mkdir, create, write, rename, delete) in one run
MaxFaults == 2

Threads == 1..NThreads

\* std::process::id() of the two processes that share the cache directory
Pids == {4112, 4113}

CacheRoot == "cache"

\* The source files.  `embedded`: try_extract_embedded_thumbnail returns Ok;
\* `orientable`: apply_orientation_correction succeeds on that thumbnail;
\* `decodable`: image::open succeeds.
Photos ==
    { [ id |-> "png",     path |-> << 98, DOT, 112, 110, 103 >>,
        embedded |-> FALSE, orientable |-> TRUE,  decodable |-> TRUE ],
      [ id |-> "raw",     path |-> << 99, DOT, 110, 101, 102 >>,
        embedded |-> FALSE, orientable |-> TRUE,  decodable |-> FALSE ],
      [ id |-> "badname", path |-> << 255, DOT, 106, 112, 103 >>,
        embedded |-> TRUE,  orientable |-> TRUE,  decodable |-> TRUE ],
      [ id |-> "jpg",     path |-> << 99, 110, DOT, 106, 112, 103 >>,
        embedded |-> TRUE,  orientable |-> TRUE,  decodable |-> TRUE ] }

CallSpecs == { [width |-> 10, height |-> 10] }

\* the extension of the file name: the bytes after its last '.'
RECURSIVE AfterLastDot(_, _, _)
AfterLastDot(name, seen, acc) ==
    IF name = << >> THEN [found |-> seen, ext |-> acc]
    ELSE IF Head(name) = DOT
         THEN AfterLastDot(Tail(name), TRUE, << >>)
         ELSE AfterLastDot(Tail(name), seen, Append(acc, Head(name)))

\* u8::to_ascii_lowercase
Lower(b) == IF b >= 65 /\ b <= 90 THEN b + 32 ELSE b

\* "cr2" "cr3" "nef" "nrw" "arw" "srf" "sr2" "dng" "raf" "orf" "rw2" "pef" "raw"
RawExtensions ==
    { << 99, 114, 50 >>, << 99, 114, 51 >>, << 110, 101, 102 >>,
      << 110, 114, 119 >>, << 97, 114, 119 >>, << 115, 114, 102 >>,
      << 115, 114, 50 >>, << 100, 110, 103 >>, << 114, 97, 102 >>,
      << 111, 114, 102 >>, << 114, 119, 50 >>, << 112, 101, 102 >>,
      << 114, 97, 119 >> }

is_raw_file(path) ==
    LET names == NormalNames(components(path, "unix"))
        e     == IF names = << >> THEN [found |-> FALSE, ext |-> << >>]
                 ELSE AfterLastDot(names[Len(names)], FALSE, << >>)
    IN  e.found /\ [i \in 1..Len(e.ext) |-> Lower(e.ext[i])] \in RawExtensions

\* What generate_image_file does before it touches `dest`:
\*   "write"  the embedded thumbnail is written with std::fs::write
\*   "create" the decoded image is written through File::create + write_to
\*   "DecodeError" / "EncodeError"  it returns Err and creates nothing
GenPlan(photo) ==
    IF photo.embedded
    THEN IF photo.orientable THEN "write" ELSE "DecodeError"
    ELSE IF is_raw_file(photo.path) THEN "DecodeError"
    ELSE IF photo.decodable THEN "create"
    ELSE "DecodeError"

\* thumbnail_key of every (photo, spec) a call can name
DestTable ==
    { [ photo |-> ph, spec |-> sp,
        key   |-> thumbnail_key(ph.path, "unix", sp) ] :
      ph \in Photos, sp \in CallSpecs }

KeyFor(ph, sp) == (CHOOSE e \in DestTable : e.photo = ph /\ e.spec = sp).key

RECURSIVE ToHex(_)
\* format!("{:x}", n)
ToHex(n) ==
    IF n < 16 THEN HexDigits[n + 1]
    ELSE ToHex(n \div 16) \o HexDigits[(n % 16) + 1]

\* a temp name made of the time and the process id alone
TempPathUnkeyed(dest, nanos, pid) ==
    << dest[1], dest[2], "tmp." \o ToHex(nanos) \o "_" \o ToHex(pid) >>

\* dest.with_file_name(format!("{}.tmp.{:x}_{:x}", file_name, nanos, pid))
TempPath(dest, nanos, pid) ==
    << dest[1], dest[2], dest[3] \o ".tmp." \o ToHex(nanos) \o "_" \o ToHex(pid) >>

\* dest.parent()
Parent(path) == << path[1], path[2] >>

NoPath == << >>

fsvars == << dirs, files, inodes >>

NoResult == [kind |-> "none", path |-> NoPath, err |-> ""]
Ok(path) == [kind |-> "Ok", path |-> path, err |-> ""]
Err(e) == [kind |-> "Err", path |-> NoPath, err |-> e]
SomePath(path) == [kind |-> "Some", path |-> path, err |-> ""]
NonePath == [kind |-> "None", path |-> NoPath, err |-> ""]

IdleThread ==
    [ pc |-> "idle", op |-> "none", photo |-> "none", dest |-> NoPath,
      temp |-> NoPath, fd |-> 0, err |-> "", result |-> NoResult,
      seen |-> "none" ]

CacheInit ==
    /\ pidOf \in [Threads -> Pids]
    /\ \A a, b \in Threads : a <= b => pidOf[a] <= pidOf[b]
    /\ pidOf[1] = 4112
    /\ clock = 0
    /\ dirs = {}
    /\ files = << >>
    /\ inodes = << >>
    /\ calls = 0
    /\ faults = 0
    /\ th = [t \in Threads |-> IdleThread]

\* an existence check that never finds the file: with it a call made on an
\* existing destination generates again
path_never_exists(path) == FALSE

\* an existence check that also verifies the content
path_exists_intact(path) ==
    path \in DOMAIN files /\ inodes[files[path]].state = "complete"

\* Path::exists()
path_exists(path) == path \in DOMAIN files

\* what is at `path` at the moment a call looks: "absent", or the state of
\* the file's content
SeenAt(path) ==
    IF path \in DOMAIN files THEN inodes[files[path]].state ELSE "absent"

\* the directory entries after unlinking `path`
Unlink(fs, path) == [q \in DOMAIN fs \ {path} |-> fs[q]]

\* the inodes that still have a directory entry in fs
Linked(fs, ino) == [i \in {fs[q] : q \in DOMAIN fs} |-> ino[i]]

\* The environment may fail one more I/O call
CanFail == faults < MaxFaults

\* what a returning call leaves in th[t]: its result; the locals are gone
Return(r, result) ==
    [r EXCEPT !.pc = "idle", !.result = result, !.temp = NoPath, !.fd = 0,
              !.err = ""]

\* Thumbnailer::get_or_create, from its entry to the existence check.  The
\* key and the destination are computed (nothing shared is read); then
\* 1. Fast path: `if dest.exists() { return Ok(dest) }`.
\* `seen` records what was at the destination when the call looked.
get_or_create(t, ph, sp) ==
    /\ th[t].pc = "idle"
    /\ calls < MaxCalls
    /\ calls' = calls + 1
    /\ LET k    == KeyFor(ph, sp)
           dest == cache_path(CacheRoot, k.key)
           call == [IdleThread EXCEPT !.op = "get_or_create", !.photo = ph.id]
           here == [call EXCEPT !.dest = dest, !.seen = SeenAt(dest)]
       IN  IF ~k.ok
           THEN th' = [th EXCEPT ![t] = Return(call, Err(k.err))]
           ELSE IF path_exists(dest)
           THEN th' = [th EXCEPT ![t] = Return(here, Ok(dest))]
           ELSE th' = [th EXCEPT ![t] = [here EXCEPT !.pc = "mkdir"]]
    /\ UNCHANGED << pidOf, clock, dirs, files, inodes, faults, kvars, xvars >>

\* Thumbnailer::generate: the deprecated wrapper of get_or_create
generate(t, ph, sp) == get_or_create(t, ph, sp)

\* `if !parent.exists() { create_dir_all(parent)? }`
EnsureParent(t) ==
    /\ th[t].pc = "mkdir"
    /\ \/ /\ dirs' = dirs \cup {Parent(th[t].dest)}
          /\ th' = [th EXCEPT ![t].pc = "name"]
          /\ faults' = faults
       \/ /\ Parent(th[t].dest) \notin dirs
          /\ CanFail
          /\ faults' = faults + 1
          /\ dirs' = dirs
          /\ th' = [th EXCEPT ![t] = Return(th[t], Err("EncodeError"))]
    /\ UNCHANGED << pidOf, clock, files, inodes, calls, kvars, xvars >>

\* 2. The temp name from SystemTime::now() and the process id.  Two reads
\* of the clock less than one tick of its resolution apart give one value.
NameTemp(t) ==
    /\ th[t].pc = "name"
    /\ \E tick \in {0, 1} :
          /\ clock' = clock + tick
          /\ th' = [th EXCEPT ![t].pc = "generate",
                      ![t].temp = TempPath(th[t].dest, clock + tick, pidOf[t])]
    /\ UNCHANGED << pidOf, dirs, files, inodes, calls, faults, kvars, xvars >>

\* an inode number no file and no open descriptor uses
FreshIno(ino, open) ==
    CHOOSE i \in 1..(Cardinality(DOMAIN ino \cup open) + 1) :
        /\ i \notin DOMAIN ino \cup open
        /\ \A j \in 1..(i - 1) : j \in DOMAIN ino \cup open

\* File::create(path): a new empty file, or the existing one truncated
CreateFile(fs, ino, open, path, photo) ==
    IF path \in DOMAIN fs
    THEN [ fs |-> fs, fd |-> fs[path],
           ino |-> [ino EXCEPT ![fs[path]] =
                       [photo |-> photo, state |-> "partial",
                        mtime |-> @.mtime + 1]] ]
    ELSE LET new == FreshIno(ino, open) IN
         [ fs |-> [q \in DOMAIN fs \cup {path} |->
                      IF q = path THEN new ELSE fs[q]],
           fd |-> new,
           ino |-> [i \in DOMAIN ino \cup {new} |->
                      IF i = new
                      THEN [photo |-> photo, state |-> "partial", mtime |-> 0]
                      ELSE ino[i]] ]

\* generate_image_file(source, temp_dest, spec), up to the creation of the
\* temp file: Err before anything is created, or the file is created
\* (std::fs::write and File::create both create or truncate), or the
\* creation fails.
StartGenerate(t) ==
    /\ th[t].pc = "generate"
    /\ LET ph   == CHOOSE x \in Photos : x.id = th[t].photo
           plan == GenPlan(ph)
       IN  \/ /\ plan \notin {"write", "create"}
              /\ th' = [th EXCEPT ![t].pc = "cleanup", ![t].err = plan]
              /\ UNCHANGED << files, inodes, faults >>
           \/ /\ plan \in {"write", "create"}
              /\ LET c == CreateFile(files, inodes, {th[u].fd : u \in Threads},
                                      th[t].temp, ph.id)
                 IN  /\ files' = c.fs
                     /\ inodes' = c.ino
                     /\ th' = [th EXCEPT ![t].pc = "write", ![t].fd = c.fd]
              /\ faults' = faults
           \/ /\ plan \in {"write", "create"}
              /\ CanFail
              /\ faults' = faults + 1
              /\ th' = [th EXCEPT ![t].pc = "cleanup", ![t].err = "EncodeError"]
              /\ UNCHANGED << files, inodes >>
    /\ UNCHANGED << pidOf, clock, dirs, calls, kvars, xvars >>

\* the rest of generate_image_file: the bytes are written through the open
\* file, to whatever name that file has by now; or the write fails and the
\* file stays partial
WriteContent(t) ==
    /\ th[t].pc = "write"
    /\ \/ /\ inodes' = IF th[t].fd \in DOMAIN inodes
                       THEN [inodes EXCEPT ![th[t].fd] =
                               [photo |-> th[t].photo, state |-> "complete",
                                mtime |-> @.mtime + 1]]
                       ELSE inodes
          /\ th' = [th EXCEPT ![t].pc = "rename"]
          /\ faults' = faults
       \/ /\ CanFail
          /\ faults' = faults + 1
          /\ inodes' = inodes
          /\ th' = [th EXCEPT ![t].pc = "cleanup", ![t].err = "EncodeError"]
    /\ UNCHANGED << pidOf, clock, dirs, files, calls, kvars, xvars >>

\* std::fs::rename(from, to) on the directory entries: the entry of `to` is
\* replaced in one step
rename(fs, from, to) ==
    [q \in (DOMAIN fs \ {from}) \cup {to} |-> IF q = to THEN fs[from] ELSE fs[q]]

\* ThumbnailError::EncodeError(format!("Atomic rename failed: {}", e))
RenameFailed == "EncodeError: Atomic rename failed"

\* 3. Atomic rename of temp onto dest; it fails when temp is gone (ENOENT)
\* or on an I/O error.
AtomicRename(t) ==
    /\ th[t].pc = "rename"
    /\ \/ /\ th[t].temp \in DOMAIN files
          /\ files' = rename(files, th[t].temp, th[t].dest)
          /\ inodes' = Linked(files', inodes)
          /\ th' = [th EXCEPT ![t] = Return(th[t], Ok(th[t].dest))]
          /\ faults' = faults
       \/ /\ th[t].temp \notin DOMAIN files
          /\ th' = [th EXCEPT ![t].pc = "cleanup", ![t].err = RenameFailed]
          /\ UNCHANGED << files, inodes, faults >>
       \/ /\ th[t].temp \in DOMAIN files
          /\ CanFail
          /\ faults' = faults + 1
          /\ th' = [th EXCEPT ![t].pc = "cleanup", ![t].err = RenameFailed]
          /\ UNCHANGED << files, inodes >>
    /\ UNCHANGED << pidOf, clock, dirs, calls, kvars, xvars >>

\* an error path that would delete the destination instead
CleanupDest(r) == r.dest

\* the file the error paths delete: `remove_file(&temp_dest)`
CleanupPath(r) == r.temp

\* a delete that removes nothing and reports nothing
remove_nothing(fs, path) == fs

\* std::fs::remove_file
remove_file(fs, path) == Unlink(fs, path)

\* The error closures of get_or_create: `let _ = remove_file(&temp_dest); e`.
\* The delete removes the entry, or finds none, or fails; its outcome is
\* dropped and the original error is returned.
CleanupAndFail(t) ==
    /\ th[t].pc = "cleanup"
    /\ \/ /\ files' = remove_file(files, CleanupPath(th[t]))
          /\ inodes' = Linked(files', inodes)
          /\ th' = [th EXCEPT ![t] = Return(th[t], Err(th[t].err))]
          /\ faults' = faults
       \/ /\ CleanupPath(th[t]) \in DOMAIN files
          /\ CanFail
          /\ faults' = faults + 1
          /\ UNCHANGED << files, inodes >>
          /\ th' = [th EXCEPT ![t] = Return(th[t], Err(th[t].err))]
    /\ UNCHANGED << pidOf, clock, dirs, calls, kvars, xvars >>

\* Thumbnailer::get_cached_path: key, path, one stat
get_cached_path(t, ph, sp) ==
    /\ th[t].pc = "idle"
    /\ calls < MaxCalls
    /\ calls' = calls + 1
    /\ LET k == KeyFor(ph, sp)
           r == IF ~k.ok THEN Err(k.err)
                ELSE IF path_exists(cache_path(CacheRoot, k.key))
                     THEN SomePath(cache_path(CacheRoot, k.key))
                     ELSE NonePath
       IN  th' = [th EXCEPT ![t] =
                [IdleThread EXCEPT !.op = "get_cached_path", !.photo = ph.id,
                                   !.seen = IF k.ok
                                            THEN SeenAt(cache_path(CacheRoot, k.key))
                                            ELSE "none",
                                   !.result = r]]
    /\ UNCHANGED << pidOf, clock, dirs, files, inodes, faults, kvars, xvars >>

\* Something outside the cache overwrites a cached file's bytes
\* (test_idempotency_and_cache_hit: fs::write(&p1, b"corrupt"))
ExternalOverwrite ==
    /\ \E path \in DOMAIN files :
          /\ inodes[files[path]].state = "complete"
          /\ inodes' = [inodes EXCEPT ![files[path]] =
                          [photo |-> "external", state |-> "corrupt",
                           mtime |-> @.mtime + 1]]
    /\ UNCHANGED << pidOf, clock, dirs, files, calls, th, faults, kvars, xvars >>

\* one step of a get_or_create call
CreateStep(t) ==
    \/ \E ph \in Photos, sp \in CallSpecs : get_or_create(t, ph, sp)
    \/ \E ph \in Photos, sp \in CallSpecs : generate(t, ph, sp)
    \/ EnsureParent(t)
    \/ NameTemp(t)
    \/ StartGenerate(t)
    \/ WriteContent(t)
    \/ AtomicRename(t)
    \/ CleanupAndFail(t)

\* a lookup
LookupStep(t) == \E ph \in Photos, sp \in CallSpecs : get_cached_path(t, ph, sp)

ThreadStep(t) == CreateStep(t) \/ LookupStep(t)

CacheNext == \E t \in Threads : ThreadStep(t)

(***************************************************************************)
(* Part D.  The other functions of the core, each called on bounded inputs *)
(***************************************************************************)

(***************************************************************************)
(* SpecPath: cache_path on 64-bit keys                                     *)
(***************************************************************************)

\* number of bytes of the key the caller chooses; the others keep the bytes
\* of the base key
KeyBytesVaried == 4

\* the bytes a chosen position can take: 0x00, 0x01, 0x10, 0xab
KeyByteChoices == {0, 1, 16, 171}

\* the positions chosen, in this order: the most significant byte first,
\* then the least significant, and so on inwards
KeyByteOrder == << 8, 1, 7, 2, 6, 3, 5, 4 >>

\* ThumbnailKey(0) and ThumbnailKey(0x1020304050607080) of test_sharding_rules
BaseKeys == { << 0, 0, 0, 0, 0, 0, 0, 0 >>,
              << 128, 112, 96, 80, 64, 48, 32, 16 >> }

CpInit ==
    cp \in { [phase |-> "build", key |-> k, n |-> 0, path |-> NoPath] :
             k \in BaseKeys }

\* the caller fixes one more byte of the key
CpSetByte ==
    /\ cp.phase = "build"
    /\ cp.n < KeyBytesVaried
    /\ cp.n < Len(KeyByteOrder)
    /\ \E b \in KeyByteChoices :
          cp' = [cp EXCEPT !.n = @ + 1,
                           !.key = [@ EXCEPT ![KeyByteOrder[cp.n + 1]] = b]]
    /\ UNCHANGED << kvars, cvars >>
    /\ XKeep("cp")

\* cache_path(root, &key)
CpRender ==
    /\ cp.phase = "build"
    /\ cp' = [cp EXCEPT !.phase = "done", !.path = cache_path(CacheRoot, cp.key)]
    /\ UNCHANGED << kvars, cvars >>
    /\ XKeep("cp")

CpNext == CpSetByte \/ CpRender

RECURSIVE CpKeysFrom(_, _)
\* the keys the caller can reach from key k with positions n+1.. still free
CpKeysFrom(k, n) ==
    IF n >= KeyBytesVaried \/ n >= Len(KeyByteOrder) THEN {k}
    ELSE {k} \cup UNION { CpKeysFrom([k EXCEPT ![KeyByteOrder[n + 1]] = b], n + 1) :
                          b \in KeyByteChoices }

\* cache_path of every key the caller can reach
CpTable ==
    { [key |-> k, path |-> cache_path(CacheRoot, k)] :
      k \in UNION { CpKeysFrom(b, 0) : b \in BaseKeys } }

\* the 16 hex digits of a key as numbers, most significant first
NibblesOf(key) ==
    [i \in 1..16 |->
        LET b == key[8 - ((i - 1) \div 2)]
        IN  IF i % 2 = 1 THEN b \div 16 ELSE b % 16]

RECURSIVE JoinDigits(_)
\* the digits written in lowercase hex
JoinDigits(ds) ==
    IF ds = << >> THEN "" ELSE HexDigits[Head(ds) + 1] \o JoinDigits(Tail(ds))

MaxSegments == 3

\* b"Exif\0\0"
ExifId == << 69, 120, 105, 102, 0, 0 >>

\* The segments a JPEG file is built from, as bytes.
\*   app0   FF E0, length 4, "JF"
\*   com    FF FE, length 3, one byte
\*   zero   FF E2, length 0 (shorter than its own length field)
\*   xmp    FF E1, length 10, "http://n": an APP1 segment that is not Exif
\*   nested FF E1, length 18, "XXXXXX", then the bytes FF E1 00 08 Exif\0\0:
\*          an APP1 segment that is not Exif and whose payload looks like one
\*   exif   FF E1, length 12, "Exif\0\0", then the TIFF header II*\0
\*   dqt    FF DB, length 3, one byte
\*   sos    FF DA
\*   eoi    FF D9
SegmentBytes ==
    [ app0   |-> << 255, 224, 0, 4, 74, 70 >>,
      com    |-> << 255, 254, 0, 3, 33 >>,
      zero   |-> << 255, 226, 0, 0 >>,
      xmp    |-> << 255, 225, 0, 10, 104, 116, 116, 112, 58, 47, 47, 110 >>,
      nested |-> << 255, 225, 0, 18, 88, 88, 88, 88, 88, 88,
                    255, 225, 0, 8 >> \o ExifId,
      exif   |-> << 255, 225, 0, 12 >> \o ExifId \o << 73, 73, 42, 0 >>,
      dqt    |-> << 255, 219, 0, 3, 0 >>,
      sos    |-> << 255, 218 >>,
      eoi    |-> << 255, 217 >> ]

SegmentKinds == DOMAIN SegmentBytes

\* the first bytes of a file: JPEG SOI, TIFF little- and big-endian, PNG
FileHeads ==
    [ jpeg   |-> << 255, 216 >>,
      tiffII |-> << 73, 73, 42, 0 >>,
      tiffMM |-> << 77, 77, 0, 42 >>,
      png    |-> << 137, 80, 78, 71 >>,
      short  |-> << 73 >> ]

\* values of the JPEGInterchangeFormat tag
ThumbTagValues == {0, 8, 70000}

\* the elements of a sequence
SeqRange(q) == { q[i] : i \in 1..Len(q) }

OffOk(pos) == [ok |-> TRUE, pos |-> pos]
OffErr == [ok |-> FALSE, pos |-> 0]

\* is_tiff_based: read_exact of 2 bytes, then the comparison with II and MM
is_tiff_based(file) ==
    /\ Len(file) >= 2
    /\ SubSeq(file, 1, 2) \in { << 73, 73 >>, << 77, 77 >> }

RECURSIVE ScanForApp1(_, _)
\* the loop of find_jpeg_tiff_header_offset with the reader at `pos`
ScanForApp1(file, pos) ==
    IF pos + 2 > Len(file) THEN OffErr
    ELSE LET b0 == file[pos + 1]
             b1 == file[pos + 2]
         IN  IF b0 # 255 THEN OffErr
             ELSE IF b1 = 225
                  THEN IF pos + 10 > Len(file) THEN OffErr
                       ELSE IF SubSeq(file, pos + 5, pos + 10) = ExifId
                            THEN OffOk(pos + 10)
                            ELSE ScanForApp1(file, pos + 10)
             ELSE IF b1 = 217 \/ b1 = 218 THEN OffErr
             ELSE IF (b1 >= 224 /\ b1 <= 239) \/ b1 = 254
                  THEN IF pos + 4 > Len(file) THEN OffErr
                       ELSE LET seg_len == file[pos + 3] * 256 + file[pos + 4] - 2
                            IN  IF pos + 4 + seg_len < 0 THEN OffErr
                                ELSE ScanForApp1(file, pos + 4 + seg_len)
             ELSE ScanForApp1(file, pos + 2)

\* find_jpeg_tiff_header_offset (the same function in thumbnail.rs and hash.rs)
find_jpeg_tiff_header_offset(file) ==
    IF Len(file) < 2 \/ SubSeq(file, 1, 2) # << 255, 216 >> THEN OffErr
    ELSE ScanForApp1(file, 2)

\* thumbnail.rs: `let absolute_offset = if is_tiff_based(source) {..} else {..}`
thumb_absolute_offset(file, tiff_offset) ==
    IF is_tiff_based(file) THEN OffOk(tiff_offset)
    ELSE LET h == find_jpeg_tiff_header_offset(file)
         IN  IF h.ok THEN OffOk(h.pos + tiff_offset) ELSE OffErr

\* an offset taken as absolute in every file
offset_from_file_start(file, tiff_offset) == OffOk(tiff_offset)

\* hash.rs: `let absolute_offset = if is_tiff_based(path) {..} else {..}`
hash_absolute_offset(file, tiff_offset) ==
    IF is_tiff_based(file) THEN OffOk(tiff_offset)
    ELSE LET h == find_jpeg_tiff_header_offset(file)
         IN  IF h.ok THEN OffOk(h.pos + tiff_offset) ELSE OffErr

NoOffset == [ok |-> FALSE, pos |-> -1]

\* file: the bytes; segs: the segments written; head: where the TIFF header
\* of the first Exif APP1 segment written starts (0: none); tag: the tag value
ExInit ==
    ex = [ phase |-> "off", file |-> << >>, segs |-> << >>, head |-> 0,
           tag |-> 0, thumb |-> NoOffset, hash |-> NoOffset ]

\* a file of one of the kinds is started
ExStart ==
    /\ ex.phase = "off"
    /\ \E h \in DOMAIN FileHeads, v \in ThumbTagValues :
          ex' = [ex EXCEPT !.phase = "build", !.file = FileHeads[h], !.tag = v]
    /\ UNCHANGED << kvars, cvars >>
    /\ XKeep("ex")

\* one more segment is written to a JPEG file
ExAddSegment ==
    /\ ex.phase = "build"
    /\ ex.thumb = NoOffset
    /\ Len(ex.file) >= 2
    /\ SubSeq(ex.file, 1, 2) = << 255, 216 >>
    /\ Len(ex.segs) < MaxSegments
    /\ \E s \in SegmentKinds :
          ex' = [ex EXCEPT
                   !.file = @ \o SegmentBytes[s],
                   !.segs = Append(@, s),
                   !.head = IF s = "exif" /\ ex.head = 0
                            THEN Len(ex.file) + 10 ELSE @]
    /\ UNCHANGED << kvars, cvars >>
    /\ XKeep("ex")

\* try_extract_embedded_thumbnail reaches the offset calculation
ExThumb ==
    /\ ex.phase = "build"
    /\ ex.thumb = NoOffset
    /\ ex' = [ex EXCEPT !.thumb = thumb_absolute_offset(ex.file, ex.tag)]
    /\ UNCHANGED << kvars, cvars >>
    /\ XKeep("ex")

\* try_extract_thumbnail_data reaches the offset calculation
ExHash ==
    /\ ex.phase = "build"
    /\ ex.thumb # NoOffset
    /\ ex' = [ex EXCEPT !.phase = "resolved",
                        !.hash = hash_absolute_offset(ex.file, ex.tag)]
    /\ UNCHANGED << kvars, cvars >>
    /\ XKeep("ex")

ExNext == ExStart \/ ExAddSegment \/ ExThumb \/ ExHash

\* every segment before the first Exif APP1 segment is an APPn or COM segment
\* with a well-formed length
ExCleanPrefix ==
    /\ ex.head # 0
    /\ \E i \in 1..Len(ex.segs) :
          /\ ex.segs[i] = "exif"
          /\ \A j \in 1..(i - 1) : ex.segs[j] \in {"app0", "com"}

ExAppPrefix ==
    /\ ex.head # 0
    /\ \E i \in 1..Len(ex.segs) :
          /\ ex.segs[i] = "exif"
          /\ \A j \in 1..(i - 1) : ex.segs[j] \in {"app0", "com", "xmp", "nested"}

\* an EOI or SOS marker comes first, after well-formed APPn or COM segments
ExEndsFirst ==
    \E i \in 1..Len(ex.segs) :
        /\ ex.segs[i] \in {"eoi", "sos"}
        /\ \A j \in 1..(i - 1) : ex.segs[j] \in {"app0", "com", "xmp", "nested"}

\* C22: in a JPEG whose SOI is followed by well-formed APPn and COM segments
\* (APP1 segments that are not Exif among them) and then by an Exif APP1
\* segment, the offset found is the byte after that segment's "Exif\0\0";
\* when an EOI or SOS marker comes first, no offset is found.
C22_SkipsSegmentsBeforeExif ==
    (ex.thumb # NoOffset /\ ~is_tiff_based(ex.file)) =>
        /\ ExAppPrefix => ex.thumb = OffOk(ex.head + ex.tag)
        /\ ExEndsFirst => ~ex.thumb.ok

(***************************************************************************)
(* extract_raw_preview: the scan of a RAW file for embedded JPEGs          *)
(* (image/thumbnail.rs).  A file is its 8 header bytes followed by blobs:  *)
(* a decodable JPEG (start marker .. end marker), a corrupt one (the same  *)
(* markers around bytes that do not decode) or sensor noise without any    *)
(* marker.                                                                 *)
(***************************************************************************)
MaxBlobs == 3
GOOD_ENOUGH_SIZE == 500000
MIN_GOOD_SIZE == 50000
MinJpegLen == 1024
MaxPreviewBytes == 20971520
EndMarkersTried == 20
RawScanStart == 8

PreviewSizes == {800, 10000, 60000, 600000, 2000000}

BlobKinds ==
    { [kind |-> "jpeg", len |-> n] : n \in PreviewSizes }
        \cup { [kind |-> "corrupt", len |-> 70000], [kind |-> "noise", len |-> 4096] }

\* the orientation tag read from the file: 0 stands for "no tag"
RawOrientations == {0, 1, 6}

RECURSIVE BlobBytes(_, _, _)
\* the bytes of blobs i .. j
BlobBytes(blobs, i, j) ==
    IF j < i THEN 0 ELSE blobs[j].len + BlobBytes(blobs, i, j - 1)

raw_file_size(blobs) == RawScanStart + BlobBytes(blobs, 1, Len(blobs))

\* a blob that begins with the start marker FF D8 FF
HasSoi(b) == b.kind \in {"jpeg", "corrupt"}

\* the end markers FF D9 behind the start of blob i, as (blob, end_pos) pairs
\* in file order; only the first 20 are tried
end_positions(blobs, i) ==
    LET ends == { j \in i .. Len(blobs) : HasSoi(blobs[j]) }
    IN  { j \in ends : Cardinality({ k \in ends : k <= j }) <= EndMarkersTried }

\* image::load_from_memory(&data[0..end_pos]): the range begins with a
\* complete decodable image (bytes behind its end marker are not read)
load_from_memory_ok(blobs, i, j) == blobs[i].kind = "jpeg" /\ j >= i

JpegErr == [ok |-> FALSE, len |-> 0]

extract_jpeg_from_offset(blobs, i) ==
    LET max_size == IF MaxPreviewBytes < raw_file_size(blobs) - (RawScanStart + BlobBytes(blobs, 1, i - 1))
                    THEN MaxPreviewBytes
                    ELSE raw_file_size(blobs) - (RawScanStart + BlobBytes(blobs, 1, i - 1))
        good == { j \in end_positions(blobs, i) :
                    /\ BlobBytes(blobs, i, j) <= max_size
                    /\ BlobBytes(blobs, i, j) >= MinJpegLen
                    /\ load_from_memory_ok(blobs, i, j) }
    IN  IF good = {} THEN JpegErr
        ELSE LET j == CHOOSE x \in good : \A y \in good : x <= y
             IN  [ok |-> TRUE, len |-> BlobBytes(blobs, i, j)]

NoPreview == [some |-> FALSE, at |-> 0, size |-> 0]

\* the fallback alone
fallback_only(best, fallback) == fallback

\* fallback_preview.or(best_preview)
fallback_first(best, fallback) == IF fallback.some THEN fallback ELSE best

\* best_preview.or(fallback_preview)
preview_data(best, fallback) == IF best.some THEN best ELSE fallback

RpInit ==
    rp = [phase |-> "idle", blobs |-> << >>, orient |-> 0, pos |-> 0,
          best |-> NoPreview, fallback |-> NoPreview,
          ret |-> "none", out |-> NoPreview, oriented |-> FALSE]

\* extract_raw_preview(path) is called on a RAW file
RpStart ==
    /\ rp.phase \in {"idle", "done"}
    /\ \E o \in RawOrientations :
           rp' = [phase |-> "build", blobs |-> << >>, orient |-> o, pos |-> 1,
                  best |-> NoPreview, fallback |-> NoPreview,
                  ret |-> "none", out |-> NoPreview, oriented |-> FALSE]
    /\ UNCHANGED << kvars, cvars >>
    /\ XKeep("rp")

\* the file as it lies on disk: one more blob
RpAddBlob ==
    /\ rp.phase = "build"
    /\ Len(rp.blobs) < MaxBlobs
    /\ \E b \in BlobKinds : rp' = [rp EXCEPT !.blobs = Append(@, b)]
    /\ UNCHANGED << kvars, cvars >>
    /\ XKeep("rp")

\* the file is opened and the scan begins behind the header
RpOpen ==
    /\ rp.phase = "build"
    /\ rp' = [rp EXCEPT !.phase = "scan"]
    /\ UNCHANGED << kvars, cvars >>
    /\ XKeep("rp")

\* the scan passes blob rp.pos; at a start marker the candidate is extracted
\* and both running maxima are updated, a candidate of GOOD_ENOUGH_SIZE ends
\* the scan before the fallback is updated
RpScan ==
    /\ rp.phase = "scan"
    /\ rp.pos <= Len(rp.blobs)
    /\ LET i == rp.pos
           jpeg == IF HasSoi(rp.blobs[i]) THEN extract_jpeg_from_offset(rp.blobs, i) ELSE JpegErr
           cand == [some |-> TRUE, at |-> i, size |-> jpeg.len]
           isBest == jpeg.ok /\ jpeg.len > rp.best.size /\ jpeg.len > MIN_GOOD_SIZE
           stop == isBest /\ jpeg.len >= GOOD_ENOUGH_SIZE
           isFallback == jpeg.ok /\ ~stop /\ jpeg.len > rp.fallback.size
       IN  rp' = [rp EXCEPT !.pos = i + 1,
                            !.best = IF isBest THEN cand ELSE @,
                            !.fallback = IF isFallback THEN cand ELSE @,
                            !.phase = IF stop THEN "scanned" ELSE @]
    /\ UNCHANGED << kvars, cvars >>
    /\ XKeep("rp")

\* the end of the file is reached
RpEndOfFile ==
    /\ rp.phase = "scan"
    /\ rp.pos > Len(rp.blobs)
    /\ rp' = [rp EXCEPT !.phase = "scanned"]
    /\ UNCHANGED << kvars, cvars >>
    /\ XKeep("rp")

\* the preview chosen is returned, orientation-corrected when the tag is > 1
RpReturn ==
    /\ rp.phase = "scanned"
    /\ LET chosen == preview_data(rp.best, rp.fallback)
       IN  rp' = [rp EXCEPT !.phase = "done",
                            !.ret = IF chosen.some THEN "Ok" ELSE "DecodeError",
                            !.out = chosen,
                            !.oriented = chosen.some /\ rp.orient > 1]
    /\ UNCHANGED << kvars, cvars >>
    /\ XKeep("rp")

RpNext == RpStart \/ RpAddBlob \/ RpOpen \/ RpScan \/ RpEndOfFile \/ RpReturn

\* the embedded JPEGs of the file that validate, by the blob they start at
RpValidated == { i \in 1 .. Len(rp.blobs) :
                    HasSoi(rp.blobs[i]) /\ extract_jpeg_from_offset(rp.blobs, i).ok }

RpSize(i) == extract_jpeg_from_offset(rp.blobs, i).len

RpLargest == { i \in RpValidated : \A j \in RpValidated : RpSize(j) <= RpSize(i) }

RpGoodEnough == { i \in RpValidated : RpSize(i) >= GOOD_ENOUGH_SIZE }

RpFirst(S) == CHOOSE i \in S : \A j \in S : i <= j

C26_FailsOnlyWithoutDecodableRange ==
    (rp.phase = "done" /\ \E i \in 1 .. Len(rp.blobs) : rp.blobs[i].kind = "jpeg") =>
        rp.ret = "Ok"

\* the validated candidates the scan has passed
RpSeen == { i \in RpValidated : i < rp.pos }

MaxSide == 3

Orientations == (0 .. 9) \cup {65535}

Coords(w, h) == (0 .. (w - 1)) \X (0 .. (h - 1))

\* the W x H image whose pixel (x, y) is labelled y * W + x
LabelledImage(w, h) ==
    [w |-> w, h |-> h, px |-> [p \in Coords(w, h) |-> p[2] * w + p[1]]]

\* DynamicImage::fliph: pixel (x, y) goes to (w - 1 - x, y)
fliph(img) ==
    [w |-> img.w, h |-> img.h,
     px |-> [p \in Coords(img.w, img.h) |-> img.px[<< img.w - 1 - p[1], p[2] >>]]]

\* DynamicImage::flipv: pixel (x, y) goes to (x, h - 1 - y)
flipv(img) ==
    [w |-> img.w, h |-> img.h,
     px |-> [p \in Coords(img.w, img.h) |-> img.px[<< p[1], img.h - 1 - p[2] >>]]]

\* DynamicImage::rotate180: pixel (x, y) goes to (w - 1 - x, h - 1 - y)
rotate180(img) ==
    [w |-> img.w, h |-> img.h,
     px |-> [p \in Coords(img.w, img.h) |->
                img.px[<< img.w - 1 - p[1], img.h - 1 - p[2] >>]]]

\* DynamicImage::rotate270: pixel (x, y) goes to (y, w - 1 - x) of an h x w image
rotate270(img) ==
    [w |-> img.h, h |-> img.w,
     px |-> [p \in Coords(img.h, img.w) |-> img.px[<< img.w - 1 - p[2], p[1] >>]]]

\* a quarter turn the other way round
rotate90_counterclockwise(img) ==
    [w |-> img.h, h |-> img.w,
     px |-> [p \in Coords(img.h, img.w) |-> img.px[<< img.w - 1 - p[2], p[1] >>]]]

\* DynamicImage::rotate90: pixel (x, y) goes to (h - 1 - y, x) of an h x w image
rotate90(img) ==
    [w |-> img.h, h |-> img.w,
     px |-> [p \in Coords(img.h, img.w) |-> img.px[<< p[2], img.h - 1 - p[1] >>]]]

apply_orientation_to_image(img, orientation) ==
    CASE orientation = 1 -> img
      [] orientation = 2 -> fliph(img)
      [] orientation = 3 -> rotate180(img)
      [] orientation = 4 -> flipv(img)
      [] orientation = 5 -> fliph(rotate90(img))
      [] orientation = 6 -> rotate90(img)
      [] orientation = 7 -> fliph(rotate270(img))
      [] orientation = 8 -> rotate270(img)
      [] OTHER -> img

NoImage == [w |-> 0, h |-> 0, px |-> << >>]

OiInit ==
    oi = [phase |-> "idle", img |-> NoImage, orientation |-> 0,
          out |-> NoImage, reencoded |-> FALSE]

\* an image of W x H pixels and an orientation value are given
OiStart ==
    /\ oi.phase \in {"idle", "done"}
    /\ \E w \in 1 .. MaxSide, h \in 1 .. MaxSide, o \in Orientations :
           oi' = [phase |-> "given", img |-> LabelledImage(w, h), orientation |-> o,
                  out |-> NoImage, reencoded |-> FALSE]
    /\ UNCHANGED << kvars, cvars >>
    /\ XKeep("oi")

\* apply_orientation_to_image(img, orientation), as the full-decode tier calls it
OiApplyToImage ==
    /\ oi.phase = "given"
    /\ oi' = [oi EXCEPT !.phase = "done",
                        !.out = apply_orientation_to_image(oi.img, oi.orientation)]
    /\ UNCHANGED << kvars, cvars >>
    /\ XKeep("oi")

\* apply_orientation_correction(bytes, orientation): the bytes come back as
\* they are for orientation <= 1, and are decoded, transformed and encoded
\* again otherwise
OiCorrectBytes ==
    /\ oi.phase = "given"
    /\ oi' = [oi EXCEPT !.phase = "done",
                        !.out = IF oi.orientation <= 1 THEN oi.img
                                ELSE apply_orientation_to_image(oi.img, oi.orientation),
                        !.reencoded = (oi.orientation > 1)]
    /\ UNCHANGED << kvars, cvars >>
    /\ XKeep("oi")

OiNext == OiStart \/ OiApplyToImage \/ OiCorrectBytes

\* the label the input has at (x, y)
OiIn(x, y) == oi.img.px[<< x, y >>]

\* the output is wo x ho and its pixel (x, y) is the input's pixel at From(x, y)
OiOutIs(wo, ho, From(_, _)) ==
    /\ oi.out.w = wo /\ oi.out.h = ho
    /\ DOMAIN oi.out.px = Coords(wo, ho)
    /\ \A p \in Coords(wo, ho) : oi.out.px[p] = From(p[1], p[2])

\* C14: every orientation value is mapped to its transform of the W x H grid:
\* 1 and the values outside 1..8 to the identity, 2 to the horizontal flip,
\* 3 to the rotation by 180 degrees, 4 to the vertical flip, 5 to the
\* transpose, 6 to the clockwise rotation by 90 degrees, 7 to the transverse,
\* 8 to the clockwise rotation by 270 degrees; 5..8 give an H x W image, the
\* others a W x H image.
C14_OrientationTransforms ==
    oi.phase = "done" =>
        LET W == oi.img.w
            H == oi.img.h
            o == oi.orientation
            Same(x, y) == OiIn(x, y)
            FlipH(x, y) == OiIn(W - 1 - x, y)
            Rot180(x, y) == OiIn(W - 1 - x, H - 1 - y)
            FlipV(x, y) == OiIn(x, H - 1 - y)
            Transpose(x, y) == OiIn(y, x)
            Rot90CW(x, y) == OiIn(y, H - 1 - x)
            Transverse(x, y) == OiIn(W - 1 - y, H - 1 - x)
            Rot270CW(x, y) == OiIn(W - 1 - y, x)
        IN  CASE o = 2 -> OiOutIs(W, H, FlipH)
              [] o = 3 -> OiOutIs(W, H, Rot180)
              [] o = 4 -> OiOutIs(W, H, FlipV)
              [] o = 5 -> OiOutIs(H, W, Transpose)
              [] o = 6 -> OiOutIs(H, W, Rot90CW)
              [] o = 7 -> OiOutIs(H, W, Transverse)
              [] o = 8 -> OiOutIs(H, W, Rot270CW)
              [] OTHER -> OiOutIs(W, H, Same) /\ oi.out = oi.img

\* orientation 6 has turned a 3 x 2 image into a 2 x 3 one whose top right
\* pixel is the input's top left one
C14_Witness ==
    /\ oi.phase = "done"
    /\ oi.orientation = 6
    /\ oi.img.w = 3 /\ oi.img.h = 2
    /\ oi.out.w = 2 /\ oi.out.h = 3
    /\ oi.out.px[<< 1, 0 >>] = oi.img.px[<< 0, 0 >>]
    /\ oi.reencoded

(***************************************************************************)
(* run_import_pipeline (lib.rs): the files scan_photos found are processed *)
(* one after the other; each of the five steps of a file may fail.         *)
(***************************************************************************)
MaxFiles == 3

\* the steps of one file, in the order of the loop body
ImportSteps == << "read_metadata", "compute_hash", "generate_thumbnail", "to_str", "insert" >>

\* what happens to one file: every step succeeds, or the named one is the
\* first to fail
FileFates == {"imported"} \cup { ImportSteps[k] : k \in 1 .. Len(ImportSteps) }

\* a dropped failure: the file whose path is not UTF-8 is counted nowhere
count_silently(result, fate) ==
    CASE fate = "imported" -> [result EXCEPT !.success = @ + 1]
      [] fate = "to_str" -> result
      [] OTHER -> [result EXCEPT !.failure = @ + 1]

\* result.success += 1 at the end of the body, result.failure += 1 before
\* each `continue`
count_file(result, fate) ==
    IF fate = "imported" THEN [result EXCEPT !.success = @ + 1]
                         ELSE [result EXCEPT !.failure = @ + 1]

IpInit ==
    ip = [phase |-> "idle", n |-> 0, fates |-> << >>,
          result |-> [success |-> 0, failure |-> 0], ret |-> "none"]

\* run_import_pipeline is called; scan_photos returns n files
IpScan ==
    /\ ip.phase \in {"idle", "done"}
    /\ \E n \in 0 .. MaxFiles :
           ip' = [phase |-> "loop", n |-> n, fates |-> << >>,
                  result |-> [success |-> 0, failure |-> 0], ret |-> "none"]
    /\ UNCHANGED << kvars, cvars >>
    /\ XKeep("ip")

\* one turn of the loop: the next file goes through its steps
IpFile ==
    /\ ip.phase = "loop"
    /\ Len(ip.fates) < ip.n
    /\ \E fate \in FileFates :
           ip' = [ip EXCEPT !.fates = Append(@, fate),
                            !.result = count_file(@, fate)]
    /\ UNCHANGED << kvars, cvars >>
    /\ XKeep("ip")

\* the loop is over: Ok(result)
IpReturn ==
    /\ ip.phase = "loop"
    /\ Len(ip.fates) = ip.n
    /\ ip' = [ip EXCEPT !.phase = "done", !.ret = "Ok"]
    /\ UNCHANGED << kvars, cvars >>
    /\ XKeep("ip")

IpNext == IpScan \/ IpFile \/ IpReturn

IpFailed == { k \in 1 .. Len(ip.fates) : ip.fates[k] # "imported" }

\* C15: the batch is never aborted: while it runs every file so far has been
\* attempted and counted once, and the call returns Ok only after all N
\* files, with success + failure = N and failure the number of failing files.
C15_BatchNeverAborts ==
    /\ ip.phase = "loop" =>
          /\ ip.ret = "none"
          /\ ip.result.success + ip.result.failure = Len(ip.fates)
    /\ ip.phase = "done" =>
          /\ ip.ret = "Ok"
          /\ Len(ip.fates) = ip.n
          /\ ip.result.failure = Cardinality(IpFailed)
          /\ ip.result.success = ip.n - Cardinality(IpFailed)
          /\ ip.result.success + ip.result.failure = ip.n

\* three files: the first fails in read_metadata, the second is imported,
\* the third has a path that is not UTF-8
C15_Witness ==
    /\ ip.phase = "done"
    /\ ip.fates = << "read_metadata", "imported", "to_str" >>
    /\ ip.result = [success |-> 1, failure |-> 2]

(***************************************************************************)
(* generate_image_file and the tiers below it (image/thumbnail.rs), inside *)
(* one get_or_create call on an empty cache.  A source file is described   *)
(* by what the decoders find in it; an image by its width and height.      *)
(***************************************************************************)
MaxBox == 4

NoImg == [ok |-> FALSE, w |-> 0, h |-> 0]

Img(w, h) == [ok |-> TRUE, w |-> w, h |-> h]

\* the target boxes: a square one and a flat one
ThumbSpecs == { [width |-> MaxBox, height |-> MaxBox], [width |-> MaxBox, height |-> 2] }

\* the image sizes a source can hold: inside the smallest box, inside the
\* square box only, within 4x of both boxes, beyond 4x of both
ImageSizes == { Img(MaxBox, 2), Img(3, 4), Img(3 * MaxBox, 6), Img(4 * MaxBox + 1, 3) }

\* a.nef, a.DNG, a.jpg
GenPaths == { << 97, DOT, 110, 101, 102 >>, << 97, DOT, 68, 78, 71 >>,
              << 97, DOT, 106, 112, 103 >> }

\* the orientation read_exif_orientation returns; 0 stands for None
GenOrientations == {0, 1, 3, 6}

\* A source file:
\*   exif    read_from_container succeeds on the first 256 KB
\*   orient  the Orientation tag
\*   tags    JPEGInterchangeFormat and ..Length are present in one IFD
\*   thumb   the image decoded from the bytes the tags point at (NoImg when
\*           a value is invalid, the header is not found, the read or the
\*           decode fails)
\*   scan    the largest decodable embedded JPEG above 10000 bytes that the
\*           marker scan finds
\*   full    the image image::open decodes
GenSources ==
    { s \in [ path : GenPaths, exif : BOOLEAN, orient : GenOrientations,
              tags : BOOLEAN, thumb : {NoImg} \cup ImageSizes,
              scan : {NoImg} \cup ImageSizes, full : {NoImg} \cup ImageSizes ] :
        /\ ~s.exif => (s.orient = 0 /\ ~s.tags)
        /\ ~s.tags => s.thumb = NoImg
        /\ ~is_raw_file(s.path) => s.scan = NoImg }

Max2(a, b) == IF a >= b THEN a ELSE b

\* (a / b).round() on non-negative numbers
RoundDiv(a, b) == (2 * a + b) \div (2 * b)

\* DynamicImage::thumbnail(nwidth, nheight): the aspect ratio is kept, the
\* image is scaled by the smaller of the two ratios
thumbnail(img, nwidth, nheight) ==
    IF nwidth * img.h <= nheight * img.w
    THEN Img(Max2(RoundDiv(img.w * nwidth, img.w), 1),
             Max2(RoundDiv(img.h * nwidth, img.w), 1))
    ELSE Img(Max2(RoundDiv(img.w * nheight, img.h), 1),
             Max2(RoundDiv(img.h * nheight, img.h), 1))

\* the size of apply_orientation_to_image(img, orientation)
oriented_size(img, orientation) ==
    IF orientation \in 5 .. 8 THEN Img(img.h, img.w) ELSE img

ExtractErr == [ok |-> FALSE, w |-> 0, h |-> 0, tier |-> "none"]

ExtractOk(img, tier) == [ok |-> TRUE, w |-> img.w, h |-> img.h, tier |-> tier]

\* try_extract_raw_preview; `encodes`: the JPEG encoder succeeds
try_extract_raw_preview(src, spec, encodes) ==
    IF ~src.scan.ok THEN ExtractErr
    ELSE IF src.scan.w <= spec.width /\ src.scan.h <= spec.height
         THEN ExtractOk(src.scan, "raw-scan")
    ELSE IF encodes
         THEN ExtractOk(thumbnail(src.scan, spec.width, spec.height), "raw-scan")
    ELSE ExtractErr

try_extract_embedded_thumbnail(src, spec, encodes) ==
    IF ~src.exif THEN ExtractErr
    ELSE IF ~src.tags /\ is_raw_file(src.path)
                      /\ try_extract_raw_preview(src, spec, encodes).ok
         THEN try_extract_raw_preview(src, spec, encodes)
    ELSE IF ~src.tags \/ ~src.thumb.ok THEN ExtractErr
    ELSE IF src.thumb.w <= spec.width /\ src.thumb.h <= spec.height
         THEN ExtractOk(src.thumb, "exif-unchanged")
    ELSE IF src.thumb.w <= spec.width * 4 /\ src.thumb.h <= spec.height * 4
         THEN IF encodes
              THEN ExtractOk(thumbnail(src.thumb, spec.width, spec.height),
                             "exif-downscaled")
              ELSE ExtractErr
    ELSE ExtractErr

NoSource ==
    [path |-> << >>, exif |-> FALSE, orient |-> 0, tags |-> FALSE,
     thumb |-> NoImg, scan |-> NoImg, full |-> NoImg]

GiInit ==
    gi = [phase |-> "idle", src |-> NoSource, spec |-> [width |-> 0, height |-> 0],
          embedded |-> ExtractErr, opened |-> FALSE, out |-> ExtractErr,
          temp |-> "absent", dest |-> "absent", err |-> "", cause |-> "",
          ret |-> "none", lookup |-> "none"]

\* get_or_create(source, spec) on an empty cache, up to the call of
\* generate_image_file: the destination does not exist, its directory is made
GiCall ==
    /\ gi.phase = "idle"
    /\ \E s \in GenSources, sp \in ThumbSpecs :
           gi' = [phase |-> "extract", src |-> s, spec |-> sp,
                  embedded |-> ExtractErr, opened |-> FALSE, out |-> ExtractErr,
                  temp |-> "absent", dest |-> "absent", err |-> "", cause |-> "",
                  ret |-> "none", lookup |-> "none"]
    /\ UNCHANGED << kvars, cvars >>
    /\ XKeep("gi")

\* Step 1 of generate_image_file: try_extract_embedded_thumbnail
GiExtract ==
    /\ gi.phase = "extract"
    /\ \E encodes \in BOOLEAN :
           gi' = [gi EXCEPT !.phase = "generate",
                            !.embedded = try_extract_embedded_thumbnail(gi.src, gi.spec, encodes)]
    /\ UNCHANGED << kvars, cvars >>
    /\ XKeep("gi")

\* the embedded thumbnail is orientation-corrected (the error of the
\* correction is returned with `?`) and written with std::fs::write
GiUseEmbedded ==
    /\ gi.phase = "generate"
    /\ gi.embedded.ok
    /\ \E corrects \in BOOLEAN, writes \in BOOLEAN :
           IF gi.src.orient > 1 /\ ~corrects
           THEN gi' = [gi EXCEPT !.phase = "cleanup", !.err = "EncodeError",
                                 !.cause = "orientation"]
           ELSE IF writes
           THEN gi' = [gi EXCEPT !.phase = "rename", !.temp = "complete",
                                 !.out = ExtractOk(oriented_size(gi.embedded, gi.src.orient),
                                                   gi.embedded.tier)]
           ELSE gi' = [gi EXCEPT !.phase = "cleanup", !.temp = "partial",
                                 !.err = "EncodeError", !.cause = "write"]
    /\ UNCHANGED << kvars, cvars >>
    /\ XKeep("gi")

\* a RAW file that is handed to image::open all the same
GiRawFullDecode ==
    /\ gi.phase = "generate"
    /\ ~gi.embedded.ok
    /\ is_raw_file(gi.src.path)
    /\ gi' = [gi EXCEPT !.phase = "cleanup", !.opened = TRUE,
                        !.err = "DecodeError", !.cause = "decode"]
    /\ UNCHANGED << kvars, cvars >>
    /\ XKeep("gi")

\* no embedded thumbnail and a RAW extension: Err(DecodeError) at once
GiRawHardFailure ==
    /\ gi.phase = "generate"
    /\ ~gi.embedded.ok
    /\ is_raw_file(gi.src.path)
    /\ gi' = [gi EXCEPT !.phase = "cleanup", !.err = "DecodeError", !.cause = "raw"]
    /\ UNCHANGED << kvars, cvars >>
    /\ XKeep("gi")

\* Step 2: image::open, orientation, thumbnail(), File::create + write_to
GiFullDecode ==
    /\ gi.phase = "generate"
    /\ ~gi.embedded.ok
    /\ ~is_raw_file(gi.src.path)
    /\ \E writes \in BOOLEAN :
           IF ~gi.src.full.ok
           THEN gi' = [gi EXCEPT !.phase = "cleanup", !.opened = TRUE,
                                 !.err = "DecodeError", !.cause = "decode"]
           ELSE IF writes
           THEN gi' = [gi EXCEPT !.phase = "rename", !.opened = TRUE, !.temp = "complete",
                                 !.out = ExtractOk(thumbnail(oriented_size(gi.src.full, gi.src.orient),
                                                             gi.spec.width, gi.spec.height),
                                                   "full-decode")]
           ELSE gi' = [gi EXCEPT !.phase = "cleanup", !.opened = TRUE, !.temp = "partial",
                                 !.err = "EncodeError", !.cause = "write"]
    /\ UNCHANGED << kvars, cvars >>
    /\ XKeep("gi")

\* 3. Atomic rename of the temp file onto the destination
GiRename ==
    /\ gi.phase = "rename"
    /\ \E renames \in BOOLEAN :
           IF renames
           THEN gi' = [gi EXCEPT !.phase = "done", !.temp = "absent",
                                 !.dest = "file", !.ret = "Ok"]
           ELSE gi' = [gi EXCEPT !.phase = "cleanup", !.err = "EncodeError",
                                 !.cause = "rename"]
    /\ UNCHANGED << kvars, cvars >>
    /\ XKeep("gi")

\* the error closures: remove_file(&temp_dest), then the error is returned
GiCleanup ==
    /\ gi.phase = "cleanup"
    /\ gi' = [gi EXCEPT !.phase = "done", !.temp = "absent", !.ret = gi.err]
    /\ UNCHANGED << kvars, cvars >>
    /\ XKeep("gi")

\* a later get_cached_path(source, spec)
GiLookup ==
    /\ gi.phase = "done"
    /\ gi.lookup = "none"
    /\ gi' = [gi EXCEPT !.lookup = IF gi.dest = "file" THEN "Some" ELSE "None"]
    /\ UNCHANGED << kvars, cvars >>
    /\ XKeep("gi")

GiNext ==
    \/ GiCall \/ GiExtract \/ GiUseEmbedded \/ GiRawHardFailure
    \/ GiFullDecode \/ GiRename \/ GiCleanup \/ GiLookup

\* C16 (as claimed): the cache file of a successful get_or_create fits the
\* target box, whichever tier produced it and whatever the orientation.
C16_CacheFileFitsBox ==
    (gi.phase = "done" /\ gi.ret = "Ok") =>
        /\ gi.out.w <= gi.spec.width
        /\ gi.out.h <= gi.spec.height

\* some tier can serve the source: a usable EXIF thumbnail (within 4x of the
\* box), a scanned preview of a RAW file, or a full decode of another file
GiServable ==
    \/ /\ gi.src.tags /\ gi.src.thumb.ok
       /\ gi.src.thumb.w <= gi.spec.width * 4
       /\ gi.src.thumb.h <= gi.spec.height * 4
    \/ is_raw_file(gi.src.path) /\ gi.src.scan.ok
    \/ ~is_raw_file(gi.src.path) /\ gi.src.full.ok

\* C17 (as claimed): apart from failures to write or rename the cache file,
\* get_or_create returns an error only when no tier can serve the source; a
\* failure inside one tier never surfaces by itself.
C17_ErrorOnlyWhenEveryTierFailed ==
    (gi.phase = "done" /\ gi.ret # "Ok" /\ gi.cause \notin {"write", "rename"}) =>
        /\ ~GiServable
        /\ gi.cause \in {"raw", "decode"}

\* C18: for a source with a RAW extension from which no embedded thumbnail is
\* extracted, get_or_create returns DecodeError, image::open is never called,
\* neither the temp file nor a file at the destination exists afterwards,
\* and a later get_cached_path returns None.
C18_RawWithoutThumbnailIsHardFailure ==
    ( /\ is_raw_file(gi.src.path)
      /\ gi.phase \in {"cleanup", "done"}
      /\ ~gi.embedded.ok )
    => /\ ~gi.opened
       /\ gi.err = "DecodeError"
       /\ gi.dest = "absent"
       /\ gi.phase = "done" => ( /\ gi.ret = "DecodeError"
                                  /\ gi.temp = "absent"
                                  /\ gi.lookup \in {"none", "None"} )

\* a .nef file with EXIF data but without thumbnail tags and without any
\* embedded JPEG was refused, and the lookup that followed found nothing
C18_Witness ==
    /\ gi.phase = "done"
    /\ gi.src.path = << 97, DOT, 110, 101, 102 >>
    /\ gi.src.exif /\ ~gi.src.tags /\ ~gi.src.scan.ok
    /\ gi.ret = "DecodeError"
    /\ gi.lookup = "None"

(***************************************************************************)
(* compute_hash and compute_file_hash (image/hash.rs).  The digest strings *)
(* are sequences of characters.                                            *)
(***************************************************************************)
MaxFileSize == 2

Base64Alphabet ==
    << "A", "B", "C", "D", "E", "F", "G", "H", "I", "J", "K", "L", "M",
       "N", "O", "P", "Q", "R", "S", "T", "U", "V", "W", "X", "Y", "Z",
       "a", "b", "c", "d", "e", "f", "g", "h", "i", "j", "k", "l", "m",
       "n", "o", "p", "q", "r", "s", "t", "u", "v", "w", "x", "y", "z",
       "0", "1", "2", "3", "4", "5", "6", "7", "8", "9", "+", "/" >>

B64(n) == Base64Alphabet[n + 1]

RECURSIVE to_base64(_)
\* ImageHash::to_base64: standard alphabet, three bytes to four characters,
\* no padding characters at the end
to_base64(bytes) ==
    IF Len(bytes) = 0 THEN << >>
    ELSE IF Len(bytes) = 1
         THEN << B64(bytes[1] \div 4), B64((bytes[1] % 4) * 16) >>
    ELSE IF Len(bytes) = 2
         THEN << B64(bytes[1] \div 4),
                 B64((bytes[1] % 4) * 16 + bytes[2] \div 16),
                 B64((bytes[2] % 16) * 4) >>
    ELSE << B64(bytes[1] \div 4),
            B64((bytes[1] % 4) * 16 + bytes[2] \div 16),
            B64((bytes[2] % 16) * 4 + bytes[3] \div 64),
            B64(bytes[3] % 64) >> \o to_base64(SubSeq(bytes, 4, Len(bytes)))

\* the 64 bits of the 8x8 gradient hash of an image, as 8 bytes
HashBits == { << 0, 0, 0, 0, 0, 0, 0, 0 >>, << 255, 1, 128, 64, 7, 200, 3, 250 >> }

\* the values the DefaultHasher can finish with (least significant byte
\* first): 0x0000000000000001 and 0xfedcba9876543210
HasherValues == { << 1, 0, 0, 0, 0, 0, 0, 0 >>, << 16, 50, 84, 118, 152, 186, 220, 254 >> }

FileSizes == 1 .. MaxFileSize

\* a.nef, a.DNG
RawPaths == { p \in GenPaths : is_raw_file(p) }

\* DefaultHasher: some function of what is written to it, the path string
\* and the file size
Hashers == [RawPaths \X FileSizes -> HasherValues]

RECURSIVE StripZeros(_)
\* the digits of {:x}: no leading zeros, one digit at least
StripZeros(ds) ==
    IF Len(ds) > 1 /\ Head(ds) = 0 THEN StripZeros(Tail(ds)) ELSE ds

RECURSIVE PadLeft(_, _, _)
PadLeft(s, c, n) == IF Len(s) >= n THEN s ELSE PadLeft(<< c >> \o s, c, n)

\* format!("file:{:x}", h): no padding
format_file_unpadded(h) ==
    LET ds == StripZeros(NibblesOf(h))
    IN  << "f", "i", "l", "e", ":" >> \o [i \in 1 .. Len(ds) |-> HexDigits[ds[i] + 1]]

\* format!("file:{:016x}", h)
format_file_hash(h) ==
    LET ds == StripZeros(NibblesOf(h))
    IN  << "f", "i", "l", "e", ":" >>
            \o PadLeft([i \in 1 .. Len(ds) |-> HexDigits[ds[i] + 1]], "0", 16)

HashOk(digest) == [kind |-> "Ok", digest |-> digest, err |-> ""]

HashErr(e) == [kind |-> "Err", digest |-> << >>, err |-> e]

\* compute_file_hash(path); `stat`: std::fs::metadata succeeds
compute_file_hash(src, hasher) ==
    IF ~src.stat THEN HashErr("Io: metadata failed")
    ELSE HashOk(format_file_hash(hasher[<< src.path, src.size >>]))

\* A file to hash:
\*   stat   std::fs::metadata succeeds
\*   thumb  what try_extract_thumbnail_data and load_from_memory make of it:
\*          "none" (Err), "garbage" (bytes that do not decode), "image"
\*   full   image::open succeeds
\*   tbits, fbits  the gradient hash of the thumbnail and of the full image
HashSources ==
    [ path : GenPaths, stat : BOOLEAN, size : FileSizes,
      thumb : {"none", "garbage", "image"}, tbits : HashBits,
      full : BOOLEAN, fbits : HashBits ]

NoHashSource ==
    [path |-> << >>, stat |-> FALSE, size |-> 0, thumb |-> "none",
     tbits |-> << >>, full |-> FALSE, fbits |-> << >>]

NoHashResult == [kind |-> "none", digest |-> << >>, err |-> ""]

ChInit ==
    ch = [phase |-> "idle", src |-> NoHashSource, hasher |-> << >>,
          opened |-> FALSE, ret |-> NoHashResult]

\* compute_hash(path) is called
ChCall ==
    /\ ch.phase = "idle"
    /\ \E s \in HashSources, f \in Hashers :
           ch' = [phase |-> "fast", src |-> s, hasher |-> f,
                  opened |-> FALSE, ret |-> NoHashResult]
    /\ UNCHANGED << kvars, cvars >>
    /\ XKeep("ch")

\* the fast path: the embedded thumbnail is extracted, decoded and hashed
ChFastPath ==
    /\ ch.phase = "fast"
    /\ ch' = IF ch.src.thumb = "image"
             THEN [ch EXCEPT !.phase = "done", !.ret = HashOk(to_base64(ch.src.tbits))]
             ELSE [ch EXCEPT !.phase = "fallback"]
    /\ UNCHANGED << kvars, cvars >>
    /\ XKeep("ch")

\* `if is_raw_file(path) { return compute_file_hash(path) }`
ChRawFileHash ==
    /\ ch.phase = "fallback"
    /\ is_raw_file(ch.src.path)
    /\ ch' = [ch EXCEPT !.phase = "done", !.ret = compute_file_hash(ch.src, ch.hasher)]
    /\ UNCHANGED << kvars, cvars >>
    /\ XKeep("ch")

\* the slow path: image::open and the hash of the full image
ChFullDecode ==
    /\ ch.phase = "fallback"
    /\ ~is_raw_file(ch.src.path)
    /\ ch' = [ch EXCEPT !.phase = "done", !.opened = TRUE,
                        !.ret = IF ch.src.full THEN HashOk(to_base64(ch.src.fbits))
                                ELSE HashErr("ImageDecode")]
    /\ UNCHANGED << kvars, cvars >>
    /\ XKeep("ch")

ChNext == ChCall \/ ChFastPath \/ ChRawFileHash \/ ChFullDecode

\* the digest is "file:" and 16 lowercase hex digits
IsFileDigest(d) ==
    /\ Len(d) = 21
    /\ SubSeq(d, 1, 5) = << "f", "i", "l", "e", ":" >>
    /\ \A i \in 6 .. 21 : d[i] \in { HexDigits[k] : k \in 1 .. 16 }

\* the digest is the unpadded base64 of 8 bytes
IsBase64Digest(d) ==
    /\ Len(d) = 11
    /\ \A i \in 1 .. 11 : d[i] \in { Base64Alphabet[k] : k \in 1 .. 64 }

\* C19 (as claimed): the thumbnail's perceptual hash when the thumbnail is
\* extracted and decoded; else for a RAW file always a file:<16 hex> digest
\* and no full decode; else the full image's perceptual hash or ImageDecode.
C19_DigestByTier ==
    ch.phase = "done" =>
        IF ch.src.thumb = "image"
        THEN ch.ret = HashOk(to_base64(ch.src.tbits)) /\ ~ch.opened
        ELSE IF is_raw_file(ch.src.path)
        THEN ch.ret.kind = "Ok" /\ IsFileDigest(ch.ret.digest) /\ ~ch.opened
        ELSE /\ ch.opened
             /\ ch.ret = IF ch.src.full THEN HashOk(to_base64(ch.src.fbits))
                                        ELSE HashErr("ImageDecode")

\* C19 (amended): as above, but for a RAW file without usable thumbnail the
\* result is the file:<16 hex> digest of the hasher's value for the path and
\* the size only when the file's metadata can be read, and an Io error
\* otherwise; an Ok digest has one of the two forms.
C19_DigestByTierOrIoError ==
    ch.phase = "done" =>
        /\ IF ch.src.thumb = "image"
           THEN ch.ret = HashOk(to_base64(ch.src.tbits)) /\ ~ch.opened
           ELSE IF is_raw_file(ch.src.path)
           THEN /\ ~ch.opened
                /\ IF ch.src.stat
                   THEN /\ ch.ret.kind = "Ok"
                        /\ IsFileDigest(ch.ret.digest)
                        /\ SubSeq(ch.ret.digest, 6, 21) =
                              [i \in 1 .. 16 |->
                                 HexDigits[NibblesOf(ch.hasher[<< ch.src.path, ch.src.size >>])[i] + 1]]
                   ELSE ch.ret = HashErr("Io: metadata failed")
           ELSE /\ ch.opened
                /\ ch.ret = IF ch.src.full THEN HashOk(to_base64(ch.src.fbits))
                                           ELSE HashErr("ImageDecode")
        /\ ch.ret.kind = "Ok" =>
              (IsFileDigest(ch.ret.digest) \/ IsBase64Digest(ch.ret.digest))

\* a .nef file whose thumbnail bytes do not decode got the digest
\* file:0000000000000001
C19_Witness ==
    /\ ch.phase = "done"
    /\ ch.src.path = << 97, DOT, 110, 101, 102 >>
    /\ ch.src.thumb = "garbage"
    /\ ~ch.opened
    /\ ch.ret = HashOk(<< "f", "i", "l", "e", ":", "0", "0", "0", "0", "0", "0", "0", "0",
                          "0", "0", "0", "0", "0", "0", "0", "1" >>)

(***************************************************************************)
(* PhotoIndex::insert (index/photo_index.rs): the table `photos` behind    *)
(* the mutex of one index, and the clients that call insert.               *)
(***************************************************************************)
MaxPhotos == 2

IndexClients == {1, 2}

IndexPaths == 1 .. MaxPhotos

IndexHashes == 1 .. MaxPhotos

\* a Mutex that locks nothing
mutex_absent(owner) == TRUE

\* self.conn.lock(): granted when no client holds the connection
mutex_free(owner) == owner = 0

\* SELECT id FROM photos WHERE path = ?1
select_by_path(rows, path) == { r \in rows : r.path = path }

\* SELECT id FROM photos WHERE hash = ?1
select_by_hash(rows, hash) == { r \in rows : r.hash = hash }

\* rows.next(): the first row of the result, in rowid order
first_row(found) == CHOOSE r \in found : \A s \in found : r.id <= s.id

\* the rowid SQLite gives the next row: one above the largest
next_rowid(rows) ==
    IF rows = {} THEN 1
    ELSE 1 + (CHOOSE m \in { r.id : r \in rows } : \A r \in rows : r.id <= m)

IdleClient == [pc |-> "idle", path |-> 0, hash |-> 0]

NoInsert == [kind |-> "none", path |-> 0, hash |-> 0, ret |-> 0, before |-> {}]

IxInit ==
    ix = [rows |-> {}, owner |-> 0, cl |-> [c \in IndexClients |-> IdleClient],
          last |-> NoInsert]

\* insert(path, hash, metadata) is called and takes the lock
IxLock(c) ==
    /\ ix.cl[c].pc = "idle"
    /\ mutex_free(ix.owner)
    /\ \E p \in IndexPaths, h \in IndexHashes :
           ix' = [ix EXCEPT !.owner = c,
                            !.cl[c] = [pc |-> "by_path", path |-> p, hash |-> h]]
    /\ UNCHANGED << kvars, cvars >>
    /\ XKeep("ix")

\* what a returning call leaves: the lock released, its outcome recorded
IxReturned(c, rows, kind, ret) ==
    [ix EXCEPT !.rows = rows, !.owner = 0, !.cl[c] = IdleClient,
               !.last = [kind |-> kind, path |-> ix.cl[c].path,
                         hash |-> ix.cl[c].hash, ret |-> ret, before |-> ix.rows]]

\* 1. the path is already indexed: its id is returned
IxSelectByPath(c) ==
    /\ ix.cl[c].pc = "by_path"
    /\ LET found == select_by_path(ix.rows, ix.cl[c].path)
       IN  ix' = IF found # {}
                 THEN IxReturned(c, ix.rows, "path", first_row(found).id)
                 ELSE [ix EXCEPT !.cl[c].pc = "by_hash"]
    /\ UNCHANGED << kvars, cvars >>
    /\ XKeep("ix")

\* 2. the hash is already indexed: UPDATE photos SET path = ?1 WHERE id = ?2
\* (refused by the UNIQUE constraint when another row has the path)
IxSelectByHash(c) ==
    /\ ix.cl[c].pc = "by_hash"
    /\ LET found == select_by_hash(ix.rows, ix.cl[c].hash)
           row == first_row(found)
       IN  ix' = IF found = {} THEN [ix EXCEPT !.cl[c].pc = "insert"]
                 ELSE IF \E r \in ix.rows : r.id # row.id /\ r.path = ix.cl[c].path
                 THEN IxReturned(c, ix.rows, "error", 0)
                 ELSE IxReturned(c, (ix.rows \ {row})
                                       \cup {[row EXCEPT !.path = ix.cl[c].path]},
                                 "hash", row.id)
    /\ UNCHANGED << kvars, cvars >>
    /\ XKeep("ix")

\* 3. INSERT INTO photos (refused by the UNIQUE constraint on path);
\* conn.last_insert_rowid() is returned
IxInsertRow(c) ==
    /\ ix.cl[c].pc = "insert"
    /\ ix' = IF select_by_path(ix.rows, ix.cl[c].path) # {}
             THEN IxReturned(c, ix.rows, "error", 0)
             ELSE IxReturned(c, ix.rows \cup {[id |-> next_rowid(ix.rows),
                                               path |-> ix.cl[c].path,
                                               hash |-> ix.cl[c].hash]},
                             "new", next_rowid(ix.rows))
    /\ UNCHANGED << kvars, cvars >>
    /\ XKeep("ix")

\* a statement fails (`?`): Err(Database), the table as it was
IxFail(c) ==
    /\ ix.cl[c].pc \in {"by_path", "by_hash", "insert"}
    /\ ix' = IxReturned(c, ix.rows, "error", 0)
    /\ UNCHANGED << kvars, cvars >>
    /\ XKeep("ix")

IxNext ==
    \E c \in IndexClients :
        \/ IxLock(c) \/ IxSelectByPath(c) \/ IxSelectByHash(c)
        \/ IxInsertRow(c) \/ IxFail(c)

\* C20: no two records share a path, no two share a hash; the last insert
\* of an indexed path returned that record's id and left the table as it
\* was; the last insert of a new path with an indexed hash returned that
\* record's id, added no record and changed only that record's path, to the
\* new path.
C20_PathsAndHashesUnique ==
    /\ \A r, s \in ix.rows : (r.path = s.path \/ r.hash = s.hash) => r = s
    /\ ix.last.kind = "path" =>
          /\ ix.rows = ix.last.before
          /\ \E r \in ix.rows : r.path = ix.last.path /\ r.id = ix.last.ret
    /\ ix.last.kind = "hash" =>
          /\ \A r \in ix.last.before : r.path # ix.last.path
          /\ Cardinality(ix.rows) = Cardinality(ix.last.before)
          /\ \E old \in ix.last.before :
                /\ old.hash = ix.last.hash
                /\ old.id = ix.last.ret
                /\ ix.rows = (ix.last.before \ {old})
                                \cup {[id |-> old.id, path |-> ix.last.path, hash |-> old.hash]}
    /\ ix.last.kind = "new" =>
          /\ \A r \in ix.last.before : r.path # ix.last.path /\ r.hash # ix.last.hash
          /\ ix.rows = ix.last.before
                          \cup {[id |-> ix.last.ret, path |-> ix.last.path, hash |-> ix.last.hash]}
          /\ \A r \in ix.last.before : r.id # ix.last.ret

\* the index held one photo at path 1; an insert of path 2 with the same hash
\* returned its id and moved the record to path 2
C20_Witness ==
    /\ ix.last.kind = "hash"
    /\ ix.last.before = {[id |-> 1, path |-> 1, hash |-> 1]}
    /\ ix.rows = {[id |-> 1, path |-> 2, hash |-> 1]}
    /\ ix.last.ret = 1

(***************************************************************************)
(* cancel_import and import_photos (desktop/src-tauri/src/lib.rs): the     *)
(* process-wide flag IMPORT_CANCELLED and the import commands that poll    *)
(* it.  Both are Tauri commands; an async command runs on the runtime's    *)
(* worker threads, so two invocations of import_photos can overlap.        *)
(***************************************************************************)
ImportIds == {1, 2}

FileOutcomes == {"skipped", "success", "duplicate", "failure"}

IdleImport == [pc |-> "idle", i |-> 0, total |-> 0, hit |-> FALSE, end |-> "none"]

\* hit: cancel_import ran while this invocation's loop was running;
\* late: an invocation began a file although its hit was set
IcInit ==
    ic = [flag |-> FALSE, im |-> [m \in ImportIds |-> IdleImport], late |-> FALSE]

\* the loop of an invocation is between its first check and its return
loop_running(imp) == imp.pc \in {"check", "file"}

\* cancel_import(): IMPORT_CANCELLED.store(true)
IcCancel ==
    /\ ic' = [ic EXCEPT !.flag = TRUE,
                        !.im = [m \in ImportIds |->
                                   IF loop_running(ic.im[m])
                                   THEN [ic.im[m] EXCEPT !.hit = TRUE]
                                   ELSE ic.im[m]]]
    /\ UNCHANGED << kvars, cvars >>
    /\ XKeep("ic")

\* import_photos is invoked: IMPORT_CANCELLED.store(false) is its first
\* statement, then the directories are made and the photos listed
IcInvoke(m) ==
    /\ ic.im[m].pc = "idle"
    /\ \E n \in 0 .. MaxFiles :
           ic' = [ic EXCEPT !.flag = FALSE,
                            !.im[m] = [IdleImport EXCEPT !.pc = "setup", !.total = n]]
    /\ UNCHANGED << kvars, cvars >>
    /\ XKeep("ic")

\* the early returns before the loop (a directory that cannot be made, a
\* missing path, no photo found), or the loop is entered
IcSetup(m) ==
    /\ ic.im[m].pc = "setup"
    /\ \/ ic' = [ic EXCEPT !.im[m].pc = "done", !.im[m].end = "early"]
       \/ /\ ic.im[m].total > 0
          /\ ic' = [ic EXCEPT !.im[m].pc = "check"]
    /\ UNCHANGED << kvars, cvars >>
    /\ XKeep("ic")

\* top of an iteration: the list is exhausted, or IMPORT_CANCELLED.load()
\* is true and the loop breaks, or the file is begun
IcCheck(m) ==
    /\ ic.im[m].pc = "check"
    /\ ic' = IF ic.im[m].i = ic.im[m].total
             THEN [ic EXCEPT !.im[m].pc = "done", !.im[m].end = "complete"]
             ELSE IF ic.flag
             THEN [ic EXCEPT !.im[m].pc = "done", !.im[m].end = "cancelled"]
             ELSE [ic EXCEPT !.im[m].pc = "file",
                             !.late = ic.late \/ ic.im[m].hit]
    /\ UNCHANGED << kvars, cvars >>
    /\ XKeep("ic")

\* one file: get_by_path, compute_hash, read_metadata, generate_thumbnail,
\* insert; the flag is not read
IcFile(m) ==
    /\ ic.im[m].pc = "file"
    /\ \E o \in FileOutcomes :
           ic' = [ic EXCEPT !.im[m].pc = "check", !.im[m].i = ic.im[m].i + 1,
                            !.im[m].end = o]
    /\ UNCHANGED << kvars, cvars >>
    /\ XKeep("ic")

\* Ok(result) reaches the caller
IcReturn(m) ==
    /\ ic.im[m].pc = "done"
    /\ ic' = [ic EXCEPT !.im[m] = IdleImport]
    /\ UNCHANGED << kvars, cvars >>
    /\ XKeep("ic")

IcNext ==
    \/ IcCancel
    \/ \E m \in ImportIds :
           \/ IcInvoke(m) \/ IcSetup(m) \/ IcCheck(m) \/ IcFile(m) \/ IcReturn(m)

\* C21: once cancel_import has been called while the loop of an import is
\* running, that import begins no further file, in every interleaving of
\* cancel_import with invocations of import_photos.
C21_NoFileAfterCancel == ~ ic.late

(***************************************************************************)
(* find_jpeg_tiff_header_offset, one loop iteration at a time, on files    *)
(* that are any prefix of a head followed by marker segments, well-formed  *)
(* or not.                                                                 *)
(***************************************************************************)

\* The pieces written after the head of a file:
\*   one   FF FE, length 1 (shorter than its own length field)
\*   fill  FF FF: a marker that is none of APPn, COM, EOI, SOS
\* and app0, zero, xmp, exif, eoi of SegmentBytes
ScanPieces ==
    [ k \in {"app0", "zero", "xmp", "exif", "eoi"} |-> SegmentBytes[k] ]
    @@ [ one  |-> << 255, 254, 0, 1 >>,
         fill |-> << 255, 255 >> ]

\* a seek that goes back over the length field and the marker
seg_len_from_marker(len_field) == len_field - 4

\* `u16::from_be_bytes(len_buf) as i64 - 2`
seg_len(len_field) == len_field - 2

ScanOk(pos) == [kind |-> "offset", pos |-> pos, why |-> "none"]
ScanErr(why) == [kind |-> "error", pos |-> 0, why |-> why]
NoScan == [kind |-> "none", pos |-> 0, why |-> "none"]

\* read_exact of n bytes with the reader at pos
read_exact_ok(file, pos, n) == pos + n <= Len(file)

\* one iteration of the loop with the reader at pos: the value returned
\* (ret), or the position the next iteration starts at (pos)
scan_iteration(file, pos) ==
    IF ~read_exact_ok(file, pos, 2) THEN [ret |-> ScanErr("read"), pos |-> pos]
    ELSE LET b0 == file[pos + 1]
             b1 == file[pos + 2]
         IN  IF b0 # 255 THEN [ret |-> ScanErr("marker"), pos |-> pos]
             ELSE IF b1 = 225
                  THEN IF ~read_exact_ok(file, pos + 2, 8)
                       THEN [ret |-> ScanErr("read"), pos |-> pos]
                       ELSE IF SubSeq(file, pos + 5, pos + 10) = ExifId
                            THEN [ret |-> ScanOk(pos + 10), pos |-> pos]
                            ELSE [ret |-> NoScan, pos |-> pos + 10]
             ELSE IF b1 = 217 \/ b1 = 218
                  THEN [ret |-> ScanErr("no exif"), pos |-> pos]
             ELSE IF (b1 >= 224 /\ b1 <= 239) \/ b1 = 254
                  THEN IF ~read_exact_ok(file, pos + 2, 2)
                       THEN [ret |-> ScanErr("read"), pos |-> pos]
                       ELSE LET to == pos + 4 + seg_len(file[pos + 3] * 256 + file[pos + 4])
                            IN  IF to < 0 THEN [ret |-> ScanErr("seek"), pos |-> pos]
                                ELSE [ret |-> NoScan, pos |-> to]
             ELSE [ret |-> NoScan, pos |-> pos + 2]

\* file: the bytes; n: the pieces written; pos: the reader's position;
\* iters: the iterations of the loop so far
FjInit ==
    fj = [phase |-> "off", file |-> << >>, n |-> 0, pos |-> 0, iters |-> 0,
          ret |-> NoScan]

\* a file of one of the kinds is started
FjStart ==
    /\ fj.phase = "off"
    /\ \E h \in DOMAIN FileHeads :
          fj' = [fj EXCEPT !.phase = "build", !.file = FileHeads[h]]
    /\ UNCHANGED << kvars, cvars >>
    /\ XKeep("fj")

\* one more piece is written to a JPEG file
FjAddPiece ==
    /\ fj.phase = "build"
    /\ fj.n < MaxSegments
    /\ Len(fj.file) >= 2
    /\ SubSeq(fj.file, 1, 2) = << 255, 216 >>
    /\ \E k \in DOMAIN ScanPieces :
          fj' = [fj EXCEPT !.file = @ \o ScanPieces[k], !.n = @ + 1]
    /\ UNCHANGED << kvars, cvars >>
    /\ XKeep("fj")

\* the file loses its last byte, and nothing is written after that
FjTruncate ==
    /\ fj.phase = "build"
    /\ Len(fj.file) > 0
    /\ fj' = [fj EXCEPT !.file = SubSeq(@, 1, Len(@) - 1), !.n = MaxSegments]
    /\ UNCHANGED << kvars, cvars >>
    /\ XKeep("fj")

\* the call: open, read_exact of 2 bytes, the comparison with FF D8
FjCall ==
    /\ fj.phase = "build"
    /\ fj' = IF ~read_exact_ok(fj.file, 0, 2)
             THEN [fj EXCEPT !.phase = "done", !.ret = ScanErr("read")]
             ELSE IF SubSeq(fj.file, 1, 2) # << 255, 216 >>
             THEN [fj EXCEPT !.phase = "done", !.ret = ScanErr("not jpeg")]
             ELSE [fj EXCEPT !.phase = "scan", !.pos = 2]
    /\ UNCHANGED << kvars, cvars >>
    /\ XKeep("fj")

\* one iteration of `loop`
FjIter ==
    /\ fj.phase = "scan"
    /\ LET it == scan_iteration(fj.file, fj.pos)
       IN  fj' = [fj EXCEPT !.phase = IF it.ret = NoScan THEN "scan" ELSE "done",
                            !.pos = it.pos, !.ret = it.ret, !.iters = @ + 1]
    /\ UNCHANGED << kvars, cvars >>
    /\ XKeep("fj")

FjNext == FjStart \/ FjAddPiece \/ FjTruncate \/ FjCall \/ FjIter

\* C23: on every finite file the function ends, with an offset or an error:
\* an iteration that does not return moves the reader forward by 2 bytes or
\* more (a length field of 0 or 1 included), so the loop runs into the end
\* of the file at the latest; what is returned is what the loop of SpecExif
\* computes.
C23_ScanTerminates ==
    /\ [][(fj.phase = "scan" /\ fj'.phase = "scan") => fj'.pos >= fj.pos + 2]_fj
    /\ [](fj.phase = "done" =>
             /\ fj.ret.kind \in {"offset", "error"}
             /\ fj.ret.kind = "offset" <=> find_jpeg_tiff_header_offset(fj.file).ok
             /\ fj.ret.kind = "offset" =>
                    fj.ret.pos = find_jpeg_tiff_header_offset(fj.file).pos)
    /\ (fj.phase = "scan") ~> (fj.phase = "done")

\* FF D8, a COM segment of length 1 and an unknown marker: the seek goes
\* back by one byte, and the second iteration reads 01 FF as a marker
C23_Witness ==
    /\ fj.phase = "done"
    /\ fj.file = << 255, 216, 255, 254, 0, 1, 255, 255 >>
    /\ fj.iters = 2
    /\ fj.ret = ScanErr("marker")

(***************************************************************************)
(* try_extract_embedded_thumbnail (image/thumbnail.rs): what is done with  *)
(* the decoded embedded thumbnail, by its size and the spec.  Widths and   *)
(* heights are u32, kept as two 16-bit halves.                             *)
(***************************************************************************)
U32Half == 65536

U32(hi, lo) == [hi |-> hi, lo |-> lo]

\* a <= b on u32
u32_le(a, b) == a.hi < b.hi \/ (a.hi = b.hi /\ a.lo <= b.lo)

\* a * 4 on u32: the low 32 bits of the product, and whether bits were lost
u32_mul4(a) ==
    LET lo4 == a.lo * 4
        hi4 == a.hi * 4 + lo4 \div U32Half
    IN  [overflow |-> hi4 >= U32Half,
         value |-> U32(hi4 % U32Half, lo4 % U32Half)]

\* the sides of a spec: 4, 2^30, 2^32 - 1
FitSpecSides == { U32(0, 4), U32(16384, 0), U32(65535, 65535) }

\* the sides of a decoded thumbnail: 4, 5, 16, 17, 160, 2^30 + 1
FitImageSides ==
    { U32(0, 4), U32(0, 5), U32(0, 16), U32(0, 17), U32(0, 160), U32(16384, 1) }

\* overflow-checks of the build: on (dev profile) or off (release profile)
BuildProfiles == {"checked", "wrapping"}

\* `side <= spec_side * 4` as the build computes it
within_4x(side, spec_side, build) ==
    LET m == u32_mul4(spec_side)
    IN  IF m.overflow /\ build = "checked" THEN "panic"
        ELSE IF u32_le(side, m.value) THEN "yes" ELSE "no"

FtInit ==
    ft = [phase |-> "idle", w |-> U32(0, 0), h |-> U32(0, 0),
          W |-> U32(0, 0), H |-> U32(0, 0), build |-> "checked", out |-> "none"]

\* image::load_from_memory gave an image of w x h for a call with spec W x H
FtDecoded ==
    /\ ft.phase = "idle"
    /\ \E w \in FitImageSides, h \in FitImageSides,
          sw \in FitSpecSides, sh \in FitSpecSides, b \in BuildProfiles :
          ft' = [phase |-> "decoded", w |-> w, h |-> h, W |-> sw, H |-> sh,
                 build |-> b, out |-> "none"]
    /\ UNCHANGED << kvars, cvars >>
    /\ XKeep("ft")

\* the two `if`s, `&&` evaluating its right side only when the left holds
FtDecide ==
    /\ ft.phase = "decoded"
    /\ LET fw == within_4x(ft.w, ft.W, ft.build)
           fh == within_4x(ft.h, ft.H, ft.build)
       IN  ft' = IF u32_le(ft.w, ft.W) /\ u32_le(ft.h, ft.H)
                 THEN [ft EXCEPT !.phase = "done", !.out = "original"]
                 ELSE IF fw = "panic" \/ (fw = "yes" /\ fh = "panic")
                 THEN [ft EXCEPT !.phase = "done", !.out = "panic"]
                 ELSE IF fw = "yes" /\ fh = "yes"
                 THEN [ft EXCEPT !.phase = "resize"]
                 ELSE [ft EXCEPT !.phase = "done", !.out = "none"]
    /\ UNCHANGED << kvars, cvars >>
    /\ XKeep("ft")

\* thumbnail(W, H) and write_to(.., Jpeg), which may fail (EncodeError)
FtResize ==
    /\ ft.phase = "resize"
    /\ \E o \in {"resized", "encode error"} :
          ft' = [ft EXCEPT !.phase = "done", !.out = o]
    /\ UNCHANGED << kvars, cvars >>
    /\ XKeep("ft")

FtNext == FtDecoded \/ FtDecide \/ FtResize

\* ceil(a / 4) on u32
FtQuarter(a) ==
    LET lo == ((a.hi % 4) * U32Half + a.lo + 3) \div 4
    IN  U32(a.hi \div 4 + lo \div U32Half, lo % U32Half)

\* side <= 4 * spec_side over the integers
FtWithin4x(side, spec_side) == u32_le(FtQuarter(side), spec_side)

\* C24: for a thumbnail of w x h and a spec W x H the original bytes are
\* returned when w <= W and h <= H, otherwise a re-encoding (if the encoder
\* succeeds) when w <= 4W and h <= 4H, otherwise "no suitable thumbnail";
\* for every spec, those with 4W or 4H above the u32 range included.
C24_ThreeCasesOnBothDimensions ==
    ft.phase = "done" =>
        IF u32_le(ft.w, ft.W) /\ u32_le(ft.h, ft.H) THEN ft.out = "original"
        ELSE IF FtWithin4x(ft.w, ft.W) /\ FtWithin4x(ft.h, ft.H)
             THEN ft.out \in {"resized", "encode error"}
             ELSE ft.out = "none"

(***************************************************************************)
(* try_extract_embedded_thumbnail (image/thumbnail.rs): the read of the    *)
(* thumbnail bytes at a resolved offset and length, from the prefix held   *)
(* in memory or from the file.  Sizes are scaled: the prefix holds         *)
(* HeaderCap bytes where the source reads 256 * 1024.                      *)
(***************************************************************************)
HeaderCap == 3
MaxFileLen == 5

\* a file of n bytes, each byte telling its position
FileOfLen(n) == [i \in 1..n |-> 10 + i]

ReadOk(data) == [ok |-> TRUE, data |-> data]
ReadErr == [ok |-> FALSE, data |-> << >>]

\* a read that hands over the bytes there are
read_available(file, pos, n) ==
    ReadOk(SubSeq(file, pos + 1, IF pos + n <= Len(file) THEN pos + n ELSE Len(file)))

\* seek(SeekFrom::Start(pos)), `vec![0u8; n]`, read_exact: all n bytes or
\* an error
seek_read_exact(file, pos, n) ==
    IF pos + n <= Len(file) THEN ReadOk(SubSeq(file, pos + 1, pos + n))
    ELSE ReadErr

\* `header_buf[absolute_offset as usize..end_offset].to_vec()`
slice_header(header_buf, from, to) == ReadOk(SubSeq(header_buf, from + 1, to))

EtInit ==
    et = [phase |-> "idle", file |-> << >>, header_buf |-> << >>,
          offset |-> 0, length |-> 0, path |-> "none", out |-> ReadErr]

\* the file is opened and one read fills header_buf with at most HeaderCap
\* bytes; the EXIF fields give an absolute offset and a length
EtResolve ==
    /\ et.phase = "idle"
    /\ \E n \in 1..MaxFileLen, off \in 0..(MaxFileLen + 1), len \in 0..(MaxFileLen + 1) :
       \E got \in 1..(IF n < HeaderCap THEN n ELSE HeaderCap) :
          et' = [phase |-> "resolved", file |-> FileOfLen(n),
                 header_buf |-> SubSeq(FileOfLen(n), 1, got),
                 offset |-> off, length |-> len, path |-> "none", out |-> ReadErr]
    /\ UNCHANGED << kvars, cvars >>
    /\ XKeep("et")

\* end_offset <= header_buf.len(): the slice of the prefix
EtFastPath ==
    /\ et.phase = "resolved"
    /\ et.offset + et.length <= Len(et.header_buf)
    /\ et' = [et EXCEPT !.phase = "read", !.path = "prefix",
                        !.out = slice_header(et.header_buf, et.offset,
                                             et.offset + et.length)]
    /\ UNCHANGED << kvars, cvars >>
    /\ XKeep("et")

\* otherwise the file is opened again, and seek and read_exact follow
EtSlowPath ==
    /\ et.phase = "resolved"
    /\ et.offset + et.length > Len(et.header_buf)
    /\ et' = [et EXCEPT !.phase = "read", !.path = "file",
                        !.out = seek_read_exact(et.file, et.offset, et.length)]
    /\ UNCHANGED << kvars, cvars >>
    /\ XKeep("et")

EtNext == EtResolve \/ EtFastPath \/ EtSlowPath

\* C25: the read gives exactly the bytes file[offset .. offset + length)
\* when the file holds them and an error when the range goes beyond the end
\* of the file, never fewer bytes; the prefix is used only for a range that
\* lies inside it, and gives what the read from the file would give.
C25_ReadIsExactRange ==
    et.phase = "read" =>
        /\ et.offset + et.length <= Len(et.file) =>
              /\ et.out.ok
              /\ Len(et.out.data) = et.length
              /\ \A i \in 1..et.length : et.out.data[i] = et.file[et.offset + i]
        /\ et.offset + et.length > Len(et.file) => et.out = ReadErr
        /\ et.path = "prefix" =>
              /\ et.offset + et.length <= Len(et.header_buf)
              /\ Len(et.header_buf) <= HeaderCap
              /\ et.out = seek_read_exact(et.file, et.offset, et.length)

\* a range that begins inside the prefix and ends behind it is read from
\* the file
C25_Witness ==
    /\ et.phase = "read"
    /\ et.path = "file"
    /\ Len(et.file) = 5
    /\ Len(et.header_buf) = 3
    /\ et.offset = 2
    /\ et.out = ReadOk(<< 13, 14, 15 >>)

(***************************************************************************)
(* The chunked scan of extract_raw_preview and try_extract_raw_preview     *)
(* (image/thumbnail.rs) for the signature FF D8 FF, without the handling   *)
(* of candidates.  Sizes are scaled: the buffers hold ChunkSize and        *)
(* 2 * ChunkSize bytes where the source has 4096 and 32768.  A u64 or      *)
(* usize value is kept as the integer that has the same 64 bits in two's   *)
(* complement: 2^64 - k is -k.                                             *)
(***************************************************************************)
ChunkSize == 4
MaxScanFile == 14

\* number of reads in one scan that return 1 or 2 bytes
MaxShortReads == 2

\* the buffer of try_extract_raw_preview and of extract_raw_preview
ScanChunks == {ChunkSize, 2 * ChunkSize}

\* a < b on u64
u64_lt(a, b) == IF (a >= 0) = (b >= 0) THEN a < b ELSE a >= 0

\* a - b on u64 or usize: the build panics on underflow or wraps
u64_sub(a, b, build) ==
    [panic |-> u64_lt(a, b) /\ build = "checked", value |-> a - b]

\* n.saturating_sub(2)
saturating_sub2(n) == IF n < 2 THEN 0 ELSE n - 2

\* reader.read(&mut buf) at pos: 0 at the end of the file, otherwise any
\* number of bytes from 1 up to the buffer or the rest of the file
read_sizes(size, pos, chunk) ==
    IF pos < 0 \/ pos >= size THEN {0}
    ELSE 1 .. (IF size - pos < chunk THEN size - pos ELSE chunk)

\* size: file.metadata().len(); sig: the offset of the one FF D8 FF of the
\* file (0: none); tested[p]: how often offset p was compared, 2 for more
\* than once; short: the reads that returned 1 or 2 bytes
CkInit ==
    ck = [phase |-> "idle", size |-> 0, chunk |-> ChunkSize, sig |-> 0,
          build |-> "checked", pos |-> 0, tested |-> [p \in 0..MaxScanFile |-> 0],
          found |-> {}, short |-> 0, out |-> "none"]

\* the file is opened, its size taken, the reader moved to scan_start
CkOpen ==
    /\ ck.phase = "idle"
    /\ \E n \in 0..MaxScanFile, c \in ScanChunks, b \in BuildProfiles :
       \E s \in {0} \cup (RawScanStart .. (n - 3)) :
          ck' = [ck EXCEPT !.phase = "check", !.size = n, !.chunk = c, !.sig = s,
                           !.build = b, !.pos = RawScanStart]
    /\ UNCHANGED << kvars, cvars >>
    /\ XKeep("ck")

\* `while pos < file_size - 3`
CkCheck ==
    /\ ck.phase = "check"
    /\ LET limit == u64_sub(ck.size, 3, ck.build)
       IN  ck' = IF limit.panic
                 THEN [ck EXCEPT !.phase = "done", !.out = "panic"]
                 ELSE IF u64_lt(ck.pos, limit.value)
                 THEN [ck EXCEPT !.phase = "read"]
                 ELSE [ck EXCEPT !.phase = "done", !.out = "scanned"]
    /\ UNCHANGED << kvars, cvars >>
    /\ XKeep("ck")

\* the body: one read, the comparisons at buf[i .. i + 2] for
\* i < bytes_read.saturating_sub(2), `pos += (bytes_read - 2) as u64`, seek
CkRead ==
    /\ ck.phase = "read"
    /\ \E n \in read_sizes(ck.size, ck.pos, ck.chunk) :
          /\ n \in {1, 2} => ck.short < MaxShortReads
          /\ LET at == { ck.pos + i : i \in 0 .. (saturating_sub2(n) - 1) }
                 seen == [ck EXCEPT
                            !.tested = [p \in 0..MaxScanFile |->
                                           IF p \in at
                                           THEN (IF @[p] = 0 THEN 1 ELSE 2) ELSE @[p]],
                            !.found = @ \cup (at \cap {ck.sig}),
                            !.short = IF n \in {1, 2} THEN @ + 1 ELSE @]
                 step == u64_sub(n, 2, ck.build)
             IN  ck' = IF n = 0
                       THEN [ck EXCEPT !.phase = "done", !.out = "scanned"]
                       ELSE IF step.panic
                       THEN [seen EXCEPT !.phase = "done", !.out = "panic"]
                       ELSE IF ck.pos + step.value < 0
                       THEN [seen EXCEPT !.phase = "done", !.out = "DecodeError",
                                         !.pos = ck.pos + step.value]
                       ELSE [seen EXCEPT !.phase = "check",
                                         !.pos = ck.pos + step.value]
    /\ UNCHANGED << kvars, cvars >>
    /\ XKeep("ck")

CkNext == CkOpen \/ CkCheck \/ CkRead

\* C29: when the scan has ended, every offset p with 8 <= p < file_size - 3
\* was compared with the signature once and no offset twice, and a
\* signature at such an offset was found, across a chunk boundary too.
C29_EveryOffsetTestedOnce ==
    ck.phase = "done" =>
        /\ \A p \in RawScanStart .. (ck.size - 4) : ck.tested[p] = 1
        /\ \A p \in 0 .. MaxScanFile : ck.tested[p] <= 1
        /\ (ck.sig # 0 /\ ck.sig < ck.size - 3) => ck.sig \in ck.found

\* C30: the scan ends for every file, each iteration leaves the loop or
\* moves pos forward, and neither file_size - 3 nor bytes_read - 2
\* underflows, for files shorter than 3 bytes and reads of 1 or 2 bytes too.
C30_ScanEndsWithoutUnderflow ==
    /\ [](ck.out # "panic")
    /\ [][(ck.phase = "read" /\ ck'.phase # "done") => u64_lt(ck.pos, ck'.pos)]_ck
    /\ (ck.phase \in {"check", "read"}) ~> (ck.phase = "done")

vars == << kvars, cvars, xvars >>

KeyIdle ==
    /\ kPhase = "off"
    /\ kPlatform = "unix"
    /\ kSpec = [width |-> 200, height |-> 200]
    /\ kPath = << >>
    /\ kResult = KeyErr("none")

\* the other functions have not been called
XInit == CpInit /\ ExInit /\ RpInit /\ OiInit /\ IpInit /\ GiInit /\ ChInit /\ IxInit /\ IcInit /\ FjInit /\ FtInit /\ EtInit /\ CkInit

Init == CacheInit /\ KeyIdle /\ XInit

Next == CacheNext

Spec == Init /\ [][Next]_vars

NextExt == CacheNext \/ ExternalOverwrite

SpecExt == Init /\ [][NextExt]_vars

\* key derivation alone: the cache model stays in its initial state
SpecKeyInit ==
    KeyInit /\ CacheInit /\ pidOf = [t \in Threads |-> 4112] /\ XInit

SpecKey == SpecKeyInit /\ [][KeyNext]_vars

SpecPath == Init /\ [][CpNext]_vars

SpecExif == Init /\ [][ExNext]_vars

SpecRaw == Init /\ [][RpNext]_vars

SpecOrient == Init /\ [][OiNext]_vars

SpecImport == Init /\ [][IpNext]_vars

SpecGen == Init /\ [][GiNext]_vars

SpecHash == Init /\ [][ChNext]_vars

SpecIndex == Init /\ [][IxNext]_vars

SpecCancel == Init /\ [][IcNext]_vars

\* the function runs on the caller's thread until it returns
SpecScan == Init /\ [][FjNext]_vars /\ WF_vars(FjIter)

SpecFit == Init /\ [][FtNext]_vars

SpecRead == Init /\ [][EtNext]_vars

\* the scan runs on the caller's thread until it returns
SpecChunk == Init /\ [][CkNext]_vars /\ WF_vars(CkCheck) /\ WF_vars(CkRead)

(***************************************************************************)
(* Properties of get_or_create and get_cached_path                         *)
(***************************************************************************)

\* the photo a thread's call names
PhotoOf(id) == CHOOSE x \in Photos : x.id = id

\* cache_path(root, thumbnail_key(source, spec)?)
DestOf(ph, sp) == cache_path(CacheRoot, KeyFor(ph, sp).key)

\* every destination path a call can compute
DestPaths == { cache_path(CacheRoot, e.key.key) : e \in {x \in DestTable : x.key.ok} }

\* what stat() and a read of `path` show: the file and its content
Stat(fs, ino, path) ==
    IF path \in DOMAIN fs
    THEN [present |-> TRUE, ino |-> fs[path], meta |-> ino[fs[path]]]
    ELSE [present |-> FALSE]

\* the directory entry at `path`: the file it names, 0 for none
Entry(fs, path) == IF path \in DOMAIN fs THEN fs[path] ELSE 0

\* a Normal component of the photo's path is not valid UTF-8
HasBadName(ph) ==
    LET comps == components(ph.path, "unix")
    IN  \E i \in 1..Len(comps) :
           comps[i].kind = "Normal" /\ ~Utf8From(comps[i].name, 0)

\* thread t makes a step from inside a call to its return
Returns(t) == th[t].pc # "idle" /\ th'[t].pc = "idle"

\* C1: a get_or_create call made while the destination file exists returns
\* Ok(dest) in that step -- the path every earlier successful call for the
\* same source and spec returned -- and no directory, directory entry, file
\* content or modification time changes.
C1_CacheHitReturnsSamePathAndWritesNothing ==
    [][\A t \in Threads, ph \in Photos, sp \in CallSpecs :
          ( /\ get_or_create(t, ph, sp)
            /\ KeyFor(ph, sp).ok
            /\ DestOf(ph, sp) \in DOMAIN files )
          => /\ th'[t].pc = "idle"
             /\ th'[t].result = Ok(DestOf(ph, sp))
             /\ dirs' = dirs /\ files' = files /\ inodes' = inodes
             /\ \A u \in Threads :
                   ( /\ th[u].op = "get_or_create"
                     /\ th[u].photo = ph.id
                     /\ th[u].result.kind = "Ok" )
                   => th[u].result = th'[t].result]_vars

\* one call generated the file, a later call found it and returned its path
C1_Witness ==
    \E t, u \in Threads :
       /\ t # u
       /\ th[u].pc = "idle" /\ th[u].op = "get_or_create"
       /\ th[u].seen = "absent" /\ th[u].result.kind = "Ok"
       /\ th[t].pc = "idle" /\ th[t].op = "get_or_create"
       /\ th[t].seen = "complete"
       /\ th[t].result = th[u].result
       /\ inodes[files[th[t].dest]].mtime = 1

\* C2 (as claimed): a file at a destination path is always the complete
\* output of one finished generation.
C2_DestinationNeverPartial ==
    \A path \in DOMAIN files \cap DestPaths :
        inodes[files[path]].state = "complete"

\* C3 (as claimed): with no I/O failure, two finished get_or_create calls on
\* the same generatable source both returned Ok(dest), and dest exists.
C3_RacingCallsBothSucceed ==
    \A t, u \in Threads :
        ( /\ t # u
          /\ faults = 0
          /\ th[t].pc = "idle" /\ th[t].op = "get_or_create"
          /\ th[u].pc = "idle" /\ th[u].op = "get_or_create"
          /\ th[t].photo = th[u].photo
          /\ KeyFor(PhotoOf(th[t].photo), CHOOSE sp \in CallSpecs : TRUE).ok
          /\ GenPlan(PhotoOf(th[t].photo)) \in {"write", "create"} )
        => /\ th[t].result = Ok(th[t].dest)
           /\ th[u].result = Ok(th[t].dest)
           /\ th[t].dest \in DOMAIN files

\* C4 (as claimed): a file at a destination path is never replaced, removed
\* or modified by any step.
C4_WriteOnce ==
    [][\A path \in DOMAIN files \cap DestPaths :
          Stat(files', inodes', path) = Stat(files, inodes, path)]_vars

\* C4 (amended): a file at a destination path is never removed, and it is
\* replaced or modified only by a step of a get_or_create call for that
\* destination that looked for the file before it existed; a call that begins
\* when the file exists leaves it as it is.
C4_ReplacedOnlyByCallsThatBeganBefore ==
    [][\A path \in DOMAIN files \cap DestPaths :
          /\ path \in DOMAIN files'
          /\ Stat(files', inodes', path) # Stat(files, inodes, path)
             => \E t \in Threads :
                   /\ th[t].op = "get_or_create"
                   /\ th[t].dest = path
                   /\ th[t].seen = "absent"
                   /\ th[t].pc \in {"write", "rename"}
                   /\ th'[t] # th[t]]_vars

\* two calls both missed the file, both generated with different temp
\* files, and both renamed onto the destination: the second rename replaced
\* the first call's file
C4_Witness ==
    \E t, u \in Threads :
       /\ t # u
       /\ th[t].pc = "idle" /\ th[u].pc = "idle"
       /\ th[t].seen = "absent" /\ th[u].seen = "absent"
       /\ th[t].result.kind = "Ok"
       /\ th[u].result = th[t].result
       /\ th[t].dest \in DOMAIN files

\* C5 (as claimed): two calls in flight never have the same temp path.
C5_TempPathsDistinct ==
    \A t, u \in Threads :
        (t # u /\ th[t].temp # NoPath /\ th[u].temp # NoPath)
        => th[t].temp # th[u].temp

\* C6 (as claimed): when a call that has named its temp file returns an
\* error, the temp file does not exist, the directory entry of the
\* destination is as it was, and the error is the generation or rename error.
C6_NoOrphanTemp ==
    [][\A t \in Threads :
          (Returns(t) /\ th[t].temp # NoPath /\ th'[t].result.kind = "Err")
          => /\ th[t].temp \notin DOMAIN files'
             /\ Entry(files', th[t].dest) = Entry(files, th[t].dest)
             /\ th'[t].result = Err(th[t].err)]_vars

\* C6 (amended): when a call that has named its temp file returns an error,
\* the temp file does not exist unless the cleanup delete itself failed; the
\* error is the generation or rename error also in that case; and the
\* directory entry of a destination changes only in the step in which a call
\* returns Ok with that destination.
C6_TempRemovedUnlessDeleteFails ==
    [][/\ \A t \in Threads :
             (Returns(t) /\ th[t].temp # NoPath /\ th'[t].result.kind = "Err")
             => /\ (th[t].temp \notin DOMAIN files' \/ faults' = faults + 1)
                /\ th[t].err \in {"DecodeError", "EncodeError", RenameFailed}
                /\ th'[t].result = Err(th[t].err)
       /\ \A path \in DestPaths :
             Entry(files', path) # Entry(files, path)
             => \E t \in Threads :
                   Returns(t) /\ th'[t].result = Ok(path)]_vars

\* a single call wrote its temp file, the rename failed, and after the
\* error was returned no file is left
C6_Witness ==
    \E t \in Threads :
       /\ th[t].pc = "idle"
       /\ th[t].result = Err(RenameFailed)
       /\ \A u \in Threads \ {t} : th[u].op = "none"
       /\ faults = 1
       /\ dirs # {}
       /\ files = << >>

\* C7: get_cached_path changes no directory and no file, and returns
\* Some(cache_path(root, key)) exactly when a file exists at that path,
\* whatever its content, None when none exists, and Err only when the key
\* derivation fails.
C7_LookupIsPureExistenceCheck ==
    [][\A t \in Threads, ph \in Photos, sp \in CallSpecs :
          get_cached_path(t, ph, sp)
          => /\ dirs' = dirs /\ files' = files /\ inodes' = inodes
             /\ th'[t].result =
                   IF ~KeyFor(ph, sp).ok THEN Err("InvalidPathEncoding")
                   ELSE IF DestOf(ph, sp) \in DOMAIN files
                        THEN SomePath(DestOf(ph, sp))
                        ELSE NonePath]_vars

\* a lookup found a file whose bytes had been overwritten from outside, and
\* reported it present
C7_Witness ==
    \E t \in Threads :
       /\ th[t].op = "get_cached_path"
       /\ th[t].seen = "corrupt"
       /\ th[t].result.kind = "Some"
       /\ th[t].result.path \in DOMAIN files

\* C8: a get_or_create, generate or get_cached_path call on a source path
\* with a Normal component that is not UTF-8 returns InvalidPathEncoding in
\* its first step, in which no directory and no file is created or changed.
C8_BadEncodingFailsBeforeAnyEffect ==
    [][\A t \in Threads, ph \in Photos, sp \in CallSpecs :
          ( /\ \/ get_or_create(t, ph, sp)
               \/ generate(t, ph, sp)
               \/ get_cached_path(t, ph, sp)
            /\ HasBadName(ph) )
          => /\ th'[t].pc = "idle"
             /\ th'[t].result = Err("InvalidPathEncoding")
             /\ dirs' = dirs /\ files' = files /\ inodes' = inodes]_vars

\* a get_or_create on the photo with the non-UTF-8 name has returned the
\* error, and the cache directory is still empty
C8_Witness ==
    \E t \in Threads :
       /\ th[t].pc = "idle"
       /\ th[t].op = "get_or_create"
       /\ th[t].photo = "badname"
       /\ th[t].result = Err("InvalidPathEncoding")
       /\ dirs = {} /\ files = << >>

\* the files a call works on: its destination and its temp file
OwnPaths(r) == {r.dest, r.temp} \ {NoPath}

\* C28: a step of a get_or_create call creates, changes, renames or deletes
\* no file but the call's own destination and temp file and creates no
\* directory but its own shard directory; the destination and the temp file
\* of a call for another key, in the same shard directory or not, stay as
\* they are.
C28_EffectsConfinedToOwnPaths ==
    [][\A t \in Threads :
          th'[t] # th[t] =>
             /\ \A p \in (DOMAIN files \cup DOMAIN files') \ OwnPaths(th[t]) :
                   Stat(files', inodes', p) = Stat(files, inodes, p)
             /\ \A u \in Threads :
                   (th[t].dest # NoPath /\ th[u].dest # NoPath /\ th[u].dest # th[t].dest)
                   => \A p \in OwnPaths(th[u]) :
                         Stat(files', inodes', p) = Stat(files, inodes, p)
             /\ dirs \subseteq dirs'
             /\ dirs' # dirs =>
                   /\ th[t].dest # NoPath
                   /\ dirs' = dirs \cup {Parent(th[t].dest)}]_vars

\* two calls for different keys of one shard directory, made by one process
\* within one tick of the clock, both with their temp file on disk
C28_Witness ==
    /\ th[1].photo = "png" /\ th[2].photo = "jpg"
    /\ pidOf[1] = pidOf[2]
    /\ clock = 0
    /\ th[1].dest # NoPath /\ th[2].dest # NoPath
    /\ Parent(th[1].dest) = Parent(th[2].dest)
    /\ th[1].temp \in DOMAIN files
    /\ th[2].temp \in DOMAIN files
    /\ th[1].temp # th[2].temp

====
